---- MODULE Spec2Model ----
(***************************************************************************)
(* The CCID command layer of src/src/commands.c as a state machine.        *)
(*                                                                         *)
(* One reader descriptor (desc) is driven by one thread.  A command is     *)
(* entered from pc = "idle", runs through its transport writes and reads   *)
(* (each a step whose transport status and response frame are chosen by    *)
(* the environment) and ends in pc = "done" with its return code in        *)
(* result; Return then gives the control back to the caller.  io is the    *)
(* history of the transport operations of the call in progress.            *)
(***************************************************************************)
EXTENDS Integers, Sequences, FiniteSets, TLC

VARIABLES
    desc,    \* the reader descriptor (_ccid_descriptor)
    pc,      \* where the running command is
    call,    \* the running command: its name, arguments and locals
    io,      \* history: the WritePort/ReadPort operations of this call
    result,  \* the return code and the caller's output parameters
    ncalls,  \* number of commands counted so far
    wire,    \* history: sequence byte of the last frame handed to WritePort
    unsent,  \* history: frames built and not written since then, modulo 256
    t1,      \* the T=1 protocol state (t1_state_t)
    l,       \* a list (list_t) and the entries allocated for it
    ref      \* history: the elements put in the list and not cleared since

vars == <<desc, pc, call, io, result, ncalls, wire, unsent, t1, l, ref>>

(***************************************************************************)
(* Bounds of the model.                                                    *)
(***************************************************************************)
MaxCalls == 1
MaxTimeExt == 2
MaxNak == 1

(***************************************************************************)
(* Program constants.                                                      *)
(***************************************************************************)
CCID_CLASS_AUTO_ACTIVATION == 4
CCID_CLASS_AUTO_VOLTAGE == 8
CCID_CLASS_CHARACTER == 0
CCID_CLASS_TPDU == 65536
CCID_CLASS_SHORT_APDU == 131072
CCID_CLASS_EXTENDED_APDU == 262144
CCID_CLASS_EXCHANGE_MASK == 458752
CCID_COMMAND_FAILED == 64
CCID_TIME_EXTENSION == 128
\* size of the header of a response
CCID_RESPONSE_HEADER_SIZE == 10
\* resp[10 + MAX_ATR_SIZE] in CmdPowerOn
MAX_ATR_SIZE == 33
\* cmd[10 + CMD_BUF_SIZE] in CCID_Receive
CMD_BUF_SIZE == 4 + 3 + 64 * 1024 + 3
\* unsigned char arithmetic
BYTE_MOD == 256

(***************************************************************************)
(* Integer helpers of the C code.                                          *)
(***************************************************************************)
RECURSIVE BitAnd(_, _)
BitAnd(a, b) ==
    IF a = 0 \/ b = 0 THEN 0
    ELSE (a % 2) * (b % 2) + 2 * BitAnd(a \div 2, b \div 2)

\* x & bit # 0, for a mask of one bit
HasBit(x, bit) == (x \div bit) % 2 = 1

Min(a, b) == IF a < b THEN a ELSE b

max(a, b) == IF a > b THEN a ELSE b

\* i2dw(): a value as 4 bytes, least significant first
i2dw(value) ==
    << value % 256, (value \div 256) % 256,
       (value \div 65536) % 256, (value \div 16777216) % 256 >>

\* An unsigned int (32 bits) is held as the integer with the same 32 bits:
\* its value when below 2^31, its value minus 2^32 otherwise.
U32(hi, lo) ==
    IF hi >= 32768 THEN (hi - 65536) * 65536 + lo ELSE hi * 65536 + lo

Hi16(t) == (t \div 65536) % 65536
Lo16(t) == t % 65536

\* t + k modulo 2^32, for 0 <= k < 65536
AddU32(t, k) ==
    LET lo == Lo16(t) + k
        hi == Hi16(t) + lo \div 65536
    IN  U32(hi % 65536, lo % 65536)

\* dw2i(a, x): the 4 bytes at offset x (0-based) of a, least significant first
dw2i(a, x) == U32(a[x + 4] * 256 + a[x + 3], a[x + 2] * 256 + a[x + 1])

\* bei2i(): the 4 bytes at offset x (0-based) of a, most significant first
bei2i(a, x) == U32(a[x + 1] * 256 + a[x + 2], a[x + 3] * 256 + a[x + 4])

\* readTimeout *= m, for a byte m, modulo 2^32
MulU32(t, m) ==
    LET lo == Lo16(t) * m
        hi == Hi16(t) * m + lo \div 65536
    IN  U32(hi % 65536, lo % 65536)

\* (*ccid_descriptor->pbSeq)++ on an unsigned char
NextSeq_Stuck(s) == s
NextSeq(s) == (s + 1) % BYTE_MOD

(***************************************************************************)
(* CHECK_STATUS: the return code a transport status forces, "" when the    *)
(* command goes on.                                                        *)
(***************************************************************************)
CHECK_STATUS_Generic(res) ==
    IF res # "STATUS_SUCCESS" THEN "IFD_COMMUNICATION_ERROR" ELSE ""

CHECK_STATUS(res) ==
    IF res = "STATUS_NO_SUCH_DEVICE" THEN "IFD_NO_SUCH_DEVICE"
    ELSE IF res # "STATUS_SUCCESS" THEN "IFD_COMMUNICATION_ERROR"
    ELSE ""

(***************************************************************************)
(* Frames.  A command frame is its bytes: the 10-byte header, then the     *)
(* payload.  A response is what ReadPort delivered: n bytes, of which the  *)
(* header fields below and n - 10 payload bytes.                           *)
(***************************************************************************)
Header_SeqFirst(type, length, slot, seq, p7, p8, p9) ==
    <<type>> \o i2dw(length) \o <<seq, slot, p7, p8, p9>>

Header(type, length, slot, seq, p7, p8, p9) ==
    <<type>> \o i2dw(length) \o <<slot, seq, p7, p8, p9>>

\* the i-th payload byte a reader sends (fixed by its position)
PayloadByte(i) == 16 + i

Payload(n) == [i \in 1..n |-> PayloadByte(i)]

Response(n, bStatus, bError, dwLength) ==
    [n |-> n, bStatus |-> bStatus, bError |-> bError, dwLength |-> dwLength,
     data |-> IF n > CCID_RESPONSE_HEADER_SIZE
              THEN Payload(n - CCID_RESPONSE_HEADER_SIZE) ELSE <<>>]

NoResponse == Response(0, 0, 0, 0)

\* what the transport may answer
Statuses ==
    {"STATUS_SUCCESS", "STATUS_NO_SUCH_DEVICE", "STATUS_COMM_NAK",
     "STATUS_UNSUCCESSFUL"}

\* a frame shorter than the header
ShortResponses == {Response(9, 0, 0, 0)}

\* payload lengths: bytes received, and length declared in the header
ActualLens == {0, 2, 4}
DeclaredLens == {0, 2, 4}

DataResponses ==
    {Response(CCID_RESPONSE_HEADER_SIZE + a, 0, 0, d) :
        a \in ActualLens, d \in DeclaredLens}

\* bStatus with the command-failed flag: ICC state bits, time extension flag
FailedResponses(errs, iccs, tes) ==
    {Response(CCID_RESPONSE_HEADER_SIZE,
              CCID_COMMAND_FAILED + icc + te * CCID_TIME_EXTENSION, e, 0) :
        e \in errs, icc \in iccs, te \in tes}

\* bStatus with the time extension flag alone, bError the multiplier
TimeExtResponses(mults) ==
    {Response(CCID_RESPONSE_HEADER_SIZE, CCID_TIME_EXTENSION, m, 0) :
        m \in mults}

IsFailed_Never(r) == FALSE
IsFailed(r) == HasBit(r.bStatus, CCID_COMMAND_FAILED)
IsTimeExt_Never(r) == FALSE
IsTimeExt(r) == HasBit(r.bStatus, CCID_TIME_EXTENSION)

(***************************************************************************)
(* The history of transport operations.                                    *)
(***************************************************************************)
WriteEvent(frame, res, timeout) ==
    [op |-> "write", frame |-> frame, timeout |-> timeout, res |-> res]

ReadEvent(bSeq, maxlen, res, r) ==
    [op |-> "read", bSeq |-> bSeq, maxlen |-> maxlen,
     timeout |-> desc.readTimeout, res |-> res,
     resp |-> IF res = "STATUS_SUCCESS" THEN r ELSE NoResponse]

Writes == {i \in 1..Len(io) : io[i].op = "write"}
Reads == {i \in 1..Len(io) : io[i].op = "read"}
TimeExtReads ==
    {i \in Reads : io[i].res = "STATUS_SUCCESS"
                   /\ io[i].resp.n >= CCID_RESPONSE_HEADER_SIZE
                   /\ IsTimeExt(io[i].resp)}
NakReads == {i \in Reads : io[i].res = "STATUS_COMM_NAK"}

\* what a read may deliver: a failure; or a frame that fits the buffer,
\* a time extension only while the bound allows one more
ReadOutcomes(resps, maxlen) ==
    {<<res, NoResponse>> : res \in Statuses \ {"STATUS_SUCCESS"}}
    \cup {<<"STATUS_SUCCESS", r>> : r \in
            {x \in resps : /\ x.n <= maxlen
                           /\ IsTimeExt(x) =>
                                Cardinality(TimeExtReads) < MaxTimeExt}}

(***************************************************************************)
(* The T=1 protocol state (openct/proto-t1.c).                             *)
(***************************************************************************)
IFD_PROTOCOL_T1_BLOCKSIZE == 0
IFD_PROTOCOL_T1_CHECKSUM_CRC == 1
IFD_PROTOCOL_T1_CHECKSUM_LRC == 2
IFD_PROTOCOL_T1_IFSC == 3
IFD_PROTOCOL_T1_IFSD == 4
IFD_PROTOCOL_T1_STATE == 5
IFD_PROTOCOL_T1_MORE == 6
IFD_PROTOCOL_T1_NAD == 7

SENDING == 0
RECEIVING == 1
RESYNCH == 2
DEAD == 3

\* a long stored in an unsigned int or an int: its 32 low bits
LongToInt(value) == U32(Hi16(value), Lo16(value))

\* a long stored in a bool
LongToBool(value) == value # 0

\* a t1_state_t nothing has written yet: every field holds what the memory
\* held, g
T1Uninit(g) ==
    [lun |-> g, state |-> g, ifsc |-> g, ifsd |-> g, nad |-> g, wtx |-> g,
     rc_bytes |-> g, more |-> g # 0, previous_block |-> <<g, g, g, g>>]

t1_set_defaults(t) == [t EXCEPT !.ifsc = 32, !.ifsd = 32]

t1_set_checksum(t, csum) ==
    IF csum = IFD_PROTOCOL_T1_CHECKSUM_LRC THEN [t EXCEPT !.rc_bytes = 1]
    ELSE IF csum = IFD_PROTOCOL_T1_CHECKSUM_CRC THEN [t EXCEPT !.rc_bytes = 2]
    ELSE t

\* a variant that takes IFD_PROTOCOL_T1_BLOCKSIZE to set ifsc and ifsd
t1_set_param_BlockSize(t, type, value) ==
    IF type = IFD_PROTOCOL_T1_BLOCKSIZE
    THEN [t1 |-> [t EXCEPT !.ifsc = LongToInt(value),
                           !.ifsd = LongToInt(value)], ret |-> 0]
    ELSE [t1 |-> t, ret |-> -1]

\* t1_set_param(): the state it leaves and the value it returns
t1_set_param(t, type, value) ==
    IF type \in {IFD_PROTOCOL_T1_CHECKSUM_LRC, IFD_PROTOCOL_T1_CHECKSUM_CRC}
    THEN [t1 |-> t1_set_checksum(t, type), ret |-> 0]
    ELSE IF type = IFD_PROTOCOL_T1_IFSC
    THEN [t1 |-> [t EXCEPT !.ifsc = LongToInt(value)], ret |-> 0]
    ELSE IF type = IFD_PROTOCOL_T1_IFSD
    THEN [t1 |-> [t EXCEPT !.ifsd = LongToInt(value)], ret |-> 0]
    ELSE IF type = IFD_PROTOCOL_T1_STATE
    THEN [t1 |-> [t EXCEPT !.state = LongToInt(value)], ret |-> 0]
    ELSE IF type = IFD_PROTOCOL_T1_MORE
    THEN [t1 |-> [t EXCEPT !.more = LongToBool(value)], ret |-> 0]
    ELSE IF type = IFD_PROTOCOL_T1_NAD
    THEN [t1 |-> [t EXCEPT !.nad = LongToInt(value)], ret |-> 0]
    ELSE [t1 |-> t, ret |-> -1]

\* t1_init(): the state it leaves
t1_init(t, lun) ==
    LET a == t1_set_defaults(t)
        b == t1_set_param(a, IFD_PROTOCOL_T1_CHECKSUM_LRC, 0).t1
        c == t1_set_param(b, IFD_PROTOCOL_T1_STATE, SENDING).t1
        d == t1_set_param(c, IFD_PROTOCOL_T1_MORE, 0).t1
        e == t1_set_param(d, IFD_PROTOCOL_T1_NAD, 0).t1
    IN  [e EXCEPT !.lun = lun]

(***************************************************************************)
(* The list of simclist.c.  An entry (struct list_entry_s) is known by a   *)
(* number, NULL being 0; l.heap gives the fields of every entry and tells  *)
(* whether it is allocated.  The other fields of l are those of list_t;    *)
(* spareels holds the spareelsnum entries kept for reuse.                  *)
(***************************************************************************)
MaxListLen == 6
SIMCLIST_MAX_SPARE_ELEMS == 5
NULL == 0

ListEntries == 1..(MaxListLen + 2)

NoEntry == [data |-> NULL, next |-> NULL, prev |-> NULL, live |-> FALSE]

\* list_init(), its three allocations succeeding
list_init ==
    [head_sentinel |-> 1, tail_sentinel |-> 2, mid |-> NULL, numels |-> 0,
     spareels |-> <<>>, spareelsnum |-> 0,
     heap |-> [e \in ListEntries |->
                 IF e = 1 THEN [data |-> NULL, next |-> 2, prev |-> NULL,
                                live |-> TRUE]
                 ELSE IF e = 2 THEN [data |-> NULL, next |-> NULL, prev |-> 1,
                                     live |-> TRUE]
                 ELSE NoEntry]]

\* ptr = ptr->next, or ptr = ptr->prev, k times
RECURSIVE Walk(_, _, _, _)
Walk(heap, ptr, k, forward) ==
    IF k <= 0 THEN ptr
    ELSE Walk(heap, IF forward THEN heap[ptr].next ELSE heap[ptr].prev,
              k - 1, forward)

\* list_findpos(): x = (posstart + 1) / numels is compared with 0.25, 0.5
\* and 0.75, which a float holds exactly
list_findpos(list, posstart) ==
    LET n == list.numels
        m == (n - 1) \div 2
        p == posstart + 1
    IN  IF list.head_sentinel = NULL \/ list.tail_sentinel = NULL THEN NULL
        ELSE IF posstart < -1 \/ posstart > n THEN NULL
        ELSE IF n # 0 /\ 4 * p <= n
        THEN Walk(list.heap, list.head_sentinel, posstart + 1, TRUE)
        ELSE IF n # 0 /\ 2 * p < n
        THEN Walk(list.heap, list.mid, m - posstart, FALSE)
        ELSE IF n # 0 /\ 4 * p <= 3 * n
        THEN Walk(list.heap, list.mid, posstart - m, TRUE)
        ELSE Walk(list.heap, list.tail_sentinel, n - posstart, FALSE)

list_get_at(list, pos) ==
    LET tmp == list_findpos(list, pos)
    IN  IF tmp # NULL THEN list.heap[tmp].data ELSE NULL

list_size(list) == list.numels

\* lines 181-188: the mid pointer after an insertion at pos; numels is the
\* new number of elements
list_mid_Kept(heap, mid, lent, numels, pos) ==
    IF numels = 1 THEN lent ELSE mid

list_mid(heap, mid, lent, numels, pos) ==
    IF numels = 1 THEN lent
    ELSE IF numels % 2 = 1
    THEN IF pos >= (numels - 1) \div 2 THEN heap[mid].next ELSE mid
    ELSE IF pos <= (numels - 1) \div 2 THEN heap[mid].prev ELSE mid

\* list_insert_at(): the list it leaves and the value it returns; malloc_ok
\* tells whether malloc() gives an entry when it is called
list_insert_at(list, data, pos, malloc_ok) ==
    IF pos > list.numels THEN [l |-> list, ret |-> -1]
    ELSE IF list.spareelsnum = 0 /\ ~malloc_ok THEN [l |-> list, ret |-> -1]
    ELSE
    LET spare == list.spareelsnum > 0
        lent == IF spare THEN list.spareels[list.spareelsnum]
                ELSE CHOOSE e \in ListEntries :
                        /\ ~list.heap[e].live
                        /\ \A x \in ListEntries : ~list.heap[x].live => e <= x
        prec == list_findpos(list, pos - 1)
        succ == list.heap[prec].next
        heap == [list.heap EXCEPT
                    ![lent] = [data |-> data, next |-> succ, prev |-> prec,
                               live |-> TRUE],
                    ![prec].next = lent,
                    ![succ].prev = lent]
        numels == list.numels + 1
    IN  [l |-> [list EXCEPT
                  !.spareels = IF spare
                               THEN SubSeq(@, 1, list.spareelsnum - 1) ELSE @,
                  !.spareelsnum = IF spare THEN @ - 1 ELSE @,
                  !.heap = heap,
                  !.numels = numels,
                  !.mid = list_mid(heap, list.mid, lent, numels, pos)],
         ret |-> 1]

list_append(list, data, malloc_ok) ==
    list_insert_at(list, data, list.numels, malloc_ok)

\* the entries from s to the tail sentinel, following next
RECURSIVE Chain(_, _)
Chain(list, s) ==
    IF s = list.tail_sentinel THEN <<>>
    ELSE <<s>> \o Chain(list, list.heap[s].next)

\* list_clear(): the list it leaves and the value it returns
list_clear(list) ==
    LET chain == Chain(list, list.heap[list.head_sentinel].next)
        kept == Min(SIMCLIST_MAX_SPARE_ELEMS - list.spareelsnum, Len(chain))
        freed == {chain[i] : i \in (kept + 1)..Len(chain)}
    IN  [l |-> [list EXCEPT
                  !.spareels = @ \o SubSeq(chain, 1, kept),
                  !.spareelsnum = @ + kept,
                  !.heap = [e \in ListEntries |->
                              IF e \in freed THEN NoEntry
                              ELSE IF e = list.head_sentinel
                              THEN [list.heap[e] EXCEPT
                                        !.next = list.tail_sentinel]
                              ELSE IF e = list.tail_sentinel
                              THEN [list.heap[e] EXCEPT
                                        !.prev = list.head_sentinel]
                              ELSE list.heap[e]],
                  !.numels = 0,
                  !.mid = NULL],
         ret |-> list.numels]

(***************************************************************************)
(* The reader descriptor and the readers of the model.                     *)
(***************************************************************************)
Reader(dwFeatures, bVoltageSupport, dwMaxCCIDMessageLength, pbSeq) ==
    [pbSeq |-> pbSeq, readTimeout |-> 3000, dwFeatures |-> dwFeatures,
     bVoltageSupport |-> bVoltageSupport,
     dwMaxCCIDMessageLength |-> dwMaxCCIDMessageLength,
     bCurrentSlotIndex |-> 0]

\* features, voltage support and maximum message length of the readers;
\* the sequence number starts at 0
Readers ==
    {Reader(f[1], f[2], f[3], 0) :
        f \in {<<CCID_CLASS_SHORT_APDU, 7, 271>>,
               <<CCID_CLASS_SHORT_APDU + CCID_CLASS_AUTO_VOLTAGE, 7, 263>>,
               <<CCID_CLASS_TPDU + CCID_CLASS_AUTO_ACTIVATION, 2, 271>>}}

NoCall == [cmd |-> "none"]
NoResult == [ret |-> "", len |-> 0, data |-> <<>>]

Init ==
    /\ desc \in Readers
    /\ pc = "idle"
    /\ call = NoCall
    /\ io = <<>>
    /\ result = NoResult
    /\ ncalls = 0
    /\ wire = -1
    /\ unsent = 0
    /\ t1 = t1_init(T1Uninit(0), 0)
    /\ l = list_init
    /\ ref = <<>>

\* entering a command
Enter(c) ==
    /\ pc = "idle"
    /\ ncalls < MaxCalls
    /\ call' = c

\* leaving it with a return code and output parameters
Leave(ret, len, data) ==
    /\ pc' = "done"
    /\ result' = [ret |-> ret, len |-> len, data |-> data]

\* the caller takes the result
Returned ==
    /\ pc = "done"
    /\ pc' = "idle"
    /\ call' = NoCall
    /\ io' = <<>>
    /\ result' = NoResult
    /\ UNCHANGED <<desc, wire, unsent, t1, l, ref>>

\* and is counted, or is not
Return == Returned /\ ncalls' = ncalls + 1
ReturnUncounted == Returned /\ UNCHANGED ncalls

(***************************************************************************)
(* CmdPowerOff                                                             *)
(***************************************************************************)
PowerOffResponses ==
    ShortResponses \cup FailedResponses({254}, {0, 2}, {0})
    \cup {Response(CCID_RESPONSE_HEADER_SIZE, icc, 0, 0) : icc \in {0, 1, 2}}

CmdPowerOff_Write ==
    \E res \in Statuses :
        LET bSeq == desc.pbSeq
            cmd == Header(99, 0, desc.bCurrentSlotIndex, bSeq, 0, 0, 0)
        IN  /\ Enter([cmd |-> "CmdPowerOff", bSeq |-> bSeq,
                      entryTimeout |-> desc.readTimeout])
            /\ desc' = [desc EXCEPT !.pbSeq = NextSeq(bSeq)]
            /\ io' = Append(io, WriteEvent(cmd, res, desc.readTimeout))
            /\ wire' = cmd[7]
            /\ unsent' = 0
            /\ IF CHECK_STATUS(res) # ""
               THEN Leave(CHECK_STATUS(res), 0, <<>>)
               ELSE pc' = "poweroff_read" /\ UNCHANGED result
            /\ UNCHANGED <<ncalls, t1, l, ref>>

CmdPowerOff_Read ==
    /\ pc = "poweroff_read"
    /\ \E o \in ReadOutcomes(PowerOffResponses, 10) :
        LET res == o[1]
            r == o[2]
        IN  /\ io' = Append(io, ReadEvent(call.bSeq, 10, res, r))
            /\ IF CHECK_STATUS(res) # ""
               THEN Leave(CHECK_STATUS(res), 0, <<>>)
               ELSE IF r.n < CCID_RESPONSE_HEADER_SIZE
               THEN Leave("IFD_COMMUNICATION_ERROR", 0, <<>>)
               ELSE IF IsFailed(r)
               THEN Leave("IFD_COMMUNICATION_ERROR", 0, <<>>)
               ELSE Leave("IFD_SUCCESS", 0, <<>>)
    /\ UNCHANGED <<desc, call, ncalls, wire, unsent, t1, l, ref>>

(***************************************************************************)
(* CmdGetSlotStatus                                                        *)
(***************************************************************************)
SlotStatusResponses ==
    ShortResponses \cup FailedResponses({254, 5}, {0, 2}, {0})
    \cup {Response(CCID_RESPONSE_HEADER_SIZE, icc, 0, 0) : icc \in {0, 1, 2}}

\* SIZE_GET_SLOT_STATUS, the size of the caller's buffer
SIZE_GET_SLOT_STATUS == 10

CmdGetSlotStatus_Write ==
    \E res \in Statuses :
        LET bSeq == desc.pbSeq
            cmd == Header(101, 0, desc.bCurrentSlotIndex, bSeq, 0, 0, 0)
        IN  /\ Enter([cmd |-> "CmdGetSlotStatus", bSeq |-> bSeq,
                      entryTimeout |-> desc.readTimeout])
            /\ desc' = [desc EXCEPT !.pbSeq = NextSeq(bSeq)]
            /\ io' = Append(io, WriteEvent(cmd, res, desc.readTimeout))
            /\ wire' = cmd[7]
            /\ unsent' = 0
            /\ IF CHECK_STATUS(res) # ""
               THEN Leave(CHECK_STATUS(res), 0, <<>>)
               ELSE pc' = "slotstatus_read" /\ UNCHANGED result
            /\ UNCHANGED <<ncalls, t1, l, ref>>

\* lines 633-639: the failures that are communication errors; card absent
\* or mute (0xFE) is not one
SlotStatusFailed_Any(r) == IsFailed(r)
SlotStatusFailed(r) == IsFailed(r) /\ r.bError # 254

CmdGetSlotStatus_Read ==
    /\ pc = "slotstatus_read"
    /\ \E o \in ReadOutcomes(SlotStatusResponses, SIZE_GET_SLOT_STATUS) :
        LET res == o[1]
            r == o[2]
        IN  /\ io' = Append(io, ReadEvent(call.bSeq, SIZE_GET_SLOT_STATUS,
                                          res, r))
            /\ IF CHECK_STATUS(res) # ""
               THEN Leave(CHECK_STATUS(res), 0, <<>>)
               ELSE IF r.n < CCID_RESPONSE_HEADER_SIZE
               THEN Leave("IFD_COMMUNICATION_ERROR", 0, <<>>)
               ELSE IF SlotStatusFailed(r)
               THEN Leave("IFD_COMMUNICATION_ERROR", 0, <<>>)
               ELSE Leave("IFD_SUCCESS", 0, <<>>)
    /\ UNCHANGED <<desc, call, ncalls, wire, unsent, t1, l, ref>>

(***************************************************************************)
(* SetParameters                                                           *)
(***************************************************************************)
SetParametersResponses ==
    ShortResponses
    \cup FailedResponses({0, 1, 127, 128, 255}, {0}, {0})
    \cup {Response(CCID_RESPONSE_HEADER_SIZE + a, 0, 0, a) : a \in {0, 5}}

\* the protocol number and the parameter block handed in
SetParametersInputs ==
    {<<0, <<17, 0, 0, 10, 0>> >>, <<1, <<17, 16, 0, 77, 0, 32, 0>> >>}

SetParameters_Write ==
    \E in \in SetParametersInputs, res \in Statuses :
        LET bSeq == desc.pbSeq
            length == Len(in[2])
            cmd == Header(97, length, desc.bCurrentSlotIndex, bSeq,
                          in[1], 0, 0) \o in[2]
        IN  /\ Enter([cmd |-> "SetParameters", bSeq |-> bSeq,
                      length |-> length,
                      entryTimeout |-> desc.readTimeout])
            /\ desc' = [desc EXCEPT !.pbSeq = NextSeq(bSeq)]
            /\ io' = Append(io, WriteEvent(cmd, res, desc.readTimeout))
            /\ wire' = cmd[7]
            /\ unsent' = 0
            /\ IF CHECK_STATUS(res) # ""
               THEN Leave(CHECK_STATUS(res), 0, <<>>)
               ELSE pc' = "setparameters_read" /\ UNCHANGED result
            /\ UNCHANGED <<ncalls, t1, l, ref>>

\* the return code for a response with the command-failed flag
SetParametersError_Generic(bError) == "IFD_COMMUNICATION_ERROR"
SetParametersError(bError) ==
    IF bError = 0 THEN "IFD_NOT_SUPPORTED"
    ELSE IF bError >= 1 /\ bError <= 127 THEN "IFD_SUCCESS"
    ELSE "IFD_COMMUNICATION_ERROR"

SetParameters_Read ==
    /\ pc = "setparameters_read"
    /\ \E o \in ReadOutcomes(SetParametersResponses, 10 + call.length) :
        LET res == o[1]
            r == o[2]
        IN  /\ io' = Append(io, ReadEvent(call.bSeq, 10 + call.length,
                                          res, r))
            /\ IF CHECK_STATUS(res) # ""
               THEN Leave(CHECK_STATUS(res), 0, <<>>)
               ELSE IF r.n < CCID_RESPONSE_HEADER_SIZE
               THEN Leave("IFD_COMMUNICATION_ERROR", 0, <<>>)
               ELSE IF IsFailed(r)
               THEN Leave(SetParametersError(r.bError), 0, <<>>)
               ELSE Leave("IFD_SUCCESS", 0, <<>>)
    /\ UNCHANGED <<desc, call, ncalls, wire, unsent, t1, l, ref>>

(***************************************************************************)
(* Copying a response's payload out of the receive buffer: the first len   *)
(* bytes after the header.  Bytes past the n bytes ReadPort delivered were *)
(* never written by this read: their value g is whatever the buffer held.  *)
(***************************************************************************)
Stale == {0, 204}

CopyOut(r, len, g) ==
    [i \in 1..len |-> IF i <= Len(r.data) THEN r.data[i] ELSE g]

StaleChoices(r, len) == IF len > Len(r.data) THEN Stale ELSE {0}

(***************************************************************************)
(* CmdPowerOn                                                              *)
(***************************************************************************)
Voltages == {1, 2, 3}
AtrCapacities == {2, 33}

PowerOnResponses ==
    ShortResponses \cup FailedResponses({254, 246}, {0}, {0})
    \cup DataResponses

AutoVoltage(dwFeatures) ==
    \/ HasBit(dwFeatures, CCID_CLASS_AUTO_VOLTAGE)
    \/ HasBit(dwFeatures, CCID_CLASS_AUTO_ACTIVATION)

\* lines 81-87: the entry, to the label check_again
CmdPowerOn_Call ==
    \E voltage \in Voltages, nlength \in AtrCapacities :
        /\ Enter([cmd |-> "CmdPowerOn", nlength |-> nlength,
                  requested |-> voltage,
                  voltage |-> IF AutoVoltage(desc.dwFeatures)
                              THEN 0 ELSE voltage,
                  init_voltage |-> 0, bSeq |-> 0,
                  entryTimeout |-> desc.readTimeout])
        /\ pc' = IF AutoVoltage(desc.dwFeatures)
                 THEN "poweron_again" ELSE "poweron_check_again"
        /\ UNCHANGED <<desc, io, result, ncalls, wire, unsent, t1, l, ref>>

\* one of the three tests after check_again: the voltage asked for is not
\* supported
Unsupported_Never(voltage, tested, bVoltageSupport, bit) == FALSE

Unsupported(voltage, tested, bVoltageSupport, bit) ==
    tested = voltage /\ ~HasBit(bVoltageSupport, bit)

\* lines 89-93: 5V is replaced by 3V
CmdPowerOn_Check5V ==
    /\ pc = "poweron_check_again"
    /\ call' = [call EXCEPT !.voltage =
                    IF Unsupported(@, 1, desc.bVoltageSupport, 1)
                    THEN 2 ELSE @]
    /\ pc' = "poweron_check_3V"
    /\ UNCHANGED <<desc, io, result, ncalls, wire, unsent, t1, l, ref>>

\* lines 95-99: 3V is replaced by 1.8V
CmdPowerOn_Check3V ==
    /\ pc = "poweron_check_3V"
    /\ call' = [call EXCEPT !.voltage =
                    IF Unsupported(@, 2, desc.bVoltageSupport, 2)
                    THEN 3 ELSE @]
    /\ pc' = "poweron_check_1V8"
    /\ UNCHANGED <<desc, io, result, ncalls, wire, unsent, t1, l, ref>>

\* lines 101-109: 1.8V is replaced by 5V, and the tests start again unless
\* bVoltageSupport is 0
CmdPowerOn_Check1V8 ==
    /\ pc = "poweron_check_1V8"
    /\ IF Unsupported(call.voltage, 3, desc.bVoltageSupport, 4)
       THEN /\ call' = [call EXCEPT !.voltage = 1]
            /\ pc' = IF desc.bVoltageSupport # 0
                     THEN "poweron_check_again" ELSE "poweron_again"
       ELSE /\ pc' = "poweron_again"
            /\ UNCHANGED call
    /\ UNCHANGED <<desc, io, result, ncalls, wire, unsent, t1, l, ref>>

\* lines 111-123: from the label again to the write of the frame
CmdPowerOn_Write ==
    /\ pc = "poweron_again"
    /\ \E res \in Statuses :
        LET bSeq == desc.pbSeq
            cmd == Header(98, 0, desc.bCurrentSlotIndex, bSeq,
                          call.voltage, 0, 0)
        IN  /\ call' = [call EXCEPT
                          !.bSeq = bSeq,
                          !.init_voltage = IF Writes = {} THEN call.voltage
                                           ELSE call.init_voltage]
            /\ desc' = [desc EXCEPT !.pbSeq = NextSeq(bSeq)]
            /\ io' = Append(io, WriteEvent(cmd, res, desc.readTimeout))
            /\ wire' = cmd[7]
            /\ unsent' = 0
            /\ IF CHECK_STATUS(res) # ""
               THEN Leave(CHECK_STATUS(res), call.nlength, <<>>)
               ELSE pc' = "poweron_read" /\ UNCHANGED result
    /\ UNCHANGED <<ncalls, t1, l, ref>>

\* lines 147-155: the voltage tried after a failure, and whether to try it
NextVoltage_Once(voltage, init_voltage) ==
    [voltage |-> IF voltage - 1 = 0 THEN 3 ELSE voltage - 1, again |-> FALSE]

NextVoltage_Up(voltage, init_voltage) ==
    LET v == IF voltage + 1 = 4 THEN 1 ELSE voltage + 1
    IN  [voltage |-> v, again |-> v # init_voltage]

NextVoltage(voltage, init_voltage) ==
    LET v == IF voltage - 1 = 0 THEN 3 ELSE voltage - 1
    IN  [voltage |-> v, again |-> v # init_voltage]

\* lines 162-166: the number of ATR bytes given to the caller
AtrLen_Unclipped(dwLength, nlength) == dwLength
AtrLen(dwLength, nlength) ==
    IF dwLength > nlength THEN nlength ELSE dwLength

\* lines 125-170: the read of the response and what follows
CmdPowerOn_Read ==
    /\ pc = "poweron_read"
    /\ \E o \in ReadOutcomes(PowerOnResponses, 10 + MAX_ATR_SIZE) :
        LET res == o[1]
            r == o[2]
            nv == NextVoltage(call.voltage, call.init_voltage)
            atr_len == AtrLen(r.dwLength, call.nlength)
        IN  /\ io' = Append(io, ReadEvent(call.bSeq, 10 + MAX_ATR_SIZE,
                                          res, r))
            /\ IF CHECK_STATUS(res) # ""
               THEN Leave(CHECK_STATUS(res), call.nlength, <<>>)
                    /\ UNCHANGED call
               ELSE IF r.n < CCID_RESPONSE_HEADER_SIZE
               THEN Leave("IFD_COMMUNICATION_ERROR", call.nlength, <<>>)
                    /\ UNCHANGED call
               ELSE IF IsFailed(r)
               THEN IF call.voltage # 0 /\ nv.again
                    THEN /\ call' = [call EXCEPT !.voltage = nv.voltage]
                         /\ pc' = "poweron_again"
                         /\ UNCHANGED result
                    ELSE /\ Leave("IFD_COMMUNICATION_ERROR", call.nlength,
                                  <<>>)
                         /\ call' = [call EXCEPT
                               !.voltage = IF call.voltage # 0
                                           THEN nv.voltage ELSE 0]
               ELSE \E g \in StaleChoices(r, atr_len) :
                        /\ Leave("IFD_SUCCESS", atr_len,
                                 CopyOut(r, atr_len, g))
                        /\ UNCHANGED call
    /\ UNCHANGED <<desc, ncalls, wire, unsent, t1, l, ref>>

(***************************************************************************)
(* CmdEscapeCheck (CmdEscape is CmdEscapeCheck with mayfail = false)       *)
(***************************************************************************)
EscapeCommands == {<<31, 2>>}
EscapeCapacities == {1, 3}
EscapeTimeouts == {0, 30000}

EscapeResponses ==
    ShortResponses
    \cup FailedResponses({10}, {0}, {0, 1})
    \cup {Response(CCID_RESPONSE_HEADER_SIZE + 1, CCID_COMMAND_FAILED, 10, 4)}
    \cup TimeExtResponses({2})
    \cup DataResponses

\* lines 446-450: the entry, to the label again
CmdEscapeCheck_Call ==
    \E TxBuffer \in EscapeCommands, RxLength \in EscapeCapacities,
       timeout \in EscapeTimeouts, mayfail \in BOOLEAN :
        /\ Enter([cmd |-> "CmdEscapeCheck", TxBuffer |-> TxBuffer,
                  RxLength |-> RxLength, timeout |-> timeout,
                  mayfail |-> mayfail, bSeq |-> 0, log |-> <<>>,
                  old_read_timeout |-> IF timeout > 0
                                       THEN desc.readTimeout ELSE -1,
                  entryTimeout |-> desc.readTimeout])
        /\ desc' = [desc EXCEPT !.readTimeout =
                        IF timeout > 0 THEN timeout ELSE @]
        /\ pc' = "escape_again"
        /\ UNCHANGED <<io, result, ncalls, wire, unsent, t1, l, ref>>

\* the label end: the timeout the descriptor is left with
EscapeEnd(timeout, old_read_timeout, readTimeout) ==
    IF timeout > 0 THEN old_read_timeout ELSE readTimeout

EscapeLeave(ret, len, data) ==
    /\ Leave(ret, len, data)
    /\ desc' = [desc EXCEPT !.readTimeout =
                    EscapeEnd(call.timeout, call.old_read_timeout, @)]

\* lines 452-467: one of the two allocations fails
CmdEscapeCheck_AllocFail ==
    /\ pc = "escape_again"
    /\ EscapeLeave("IFD_COMMUNICATION_ERROR", call.RxLength, <<>>)
    /\ UNCHANGED <<call, io, ncalls, wire, unsent, t1, l, ref>>

\* lines 452-489: from the label again to the write of the frame
CmdEscapeCheck_Write ==
    /\ pc = "escape_again"
    /\ \E res \in Statuses :
        LET bSeq == desc.pbSeq
            cmd_in == Header(107, Len(call.TxBuffer),
                             desc.bCurrentSlotIndex, bSeq, 0, 0, 0)
                      \o call.TxBuffer
        IN  /\ call' = [call EXCEPT !.bSeq = bSeq]
            /\ io' = Append(io, WriteEvent(cmd_in, res, desc.readTimeout))
            /\ wire' = cmd_in[7]
            /\ unsent' = 0
            /\ IF res # "STATUS_SUCCESS"
               THEN /\ Leave(IF res = "STATUS_NO_SUCH_DEVICE"
                             THEN "IFD_NO_SUCH_DEVICE"
                             ELSE "IFD_COMMUNICATION_ERROR",
                             call.RxLength, <<>>)
                    /\ desc' = [desc EXCEPT
                          !.pbSeq = NextSeq(bSeq),
                          !.readTimeout = EscapeEnd(call.timeout,
                                              call.old_read_timeout, @)]
               ELSE /\ pc' = "escape_time_request"
                    /\ desc' = [desc EXCEPT !.pbSeq = NextSeq(bSeq)]
                    /\ UNCHANGED result
    /\ UNCHANGED <<ncalls, t1, l, ref>>

\* lines 529-545: the return code, the length and the bytes given back
EscapeResult(r, RxLength, g) ==
    LET failed == IF IsFailed(r) THEN "IFD_COMMUNICATION_ERROR"
                  ELSE "IFD_SUCCESS"
        length_out == IF r.dwLength > RxLength THEN RxLength ELSE r.dwLength
    IN  [ret |-> IF r.dwLength > RxLength
                 THEN "IFD_ERROR_INSUFFICIENT_BUFFER" ELSE failed,
         len |-> length_out,
         data |-> CopyOut(r, length_out, g)]

\* lines 531-532: the priority ccid_error() logs the error byte with
EscapeSeverity(mayfail) ==
    IF mayfail THEN "PCSC_LOG_INFO" ELSE "PCSC_LOG_ERROR"

\* lines 491-547: from the label time_request on
CmdEscapeCheck_Read ==
    /\ pc = "escape_time_request"
    /\ \E o \in ReadOutcomes(EscapeResponses, 10 + call.RxLength) :
        LET res == o[1]
            r == o[2]
        IN  /\ res = "STATUS_COMM_NAK" => Cardinality(NakReads) < MaxNak
            /\ io' = Append(io, ReadEvent(call.bSeq, 10 + call.RxLength,
                                          res, r))
            /\ IF res = "STATUS_COMM_NAK"
               THEN pc' = "escape_again" /\ UNCHANGED <<desc, result>>
               ELSE IF res # "STATUS_SUCCESS"
               THEN EscapeLeave(IF res = "STATUS_NO_SUCH_DEVICE"
                                THEN "IFD_NO_SUCH_DEVICE"
                                ELSE "IFD_COMMUNICATION_ERROR",
                                call.RxLength, <<>>)
               ELSE IF r.n < CCID_RESPONSE_HEADER_SIZE
               THEN EscapeLeave("IFD_COMMUNICATION_ERROR", call.RxLength,
                                <<>>)
               ELSE IF IsTimeExt(r)
               THEN pc' = "escape_time_request" /\ UNCHANGED <<desc, result>>
               ELSE \E g \in StaleChoices(r, Min(r.dwLength, call.RxLength)) :
                        LET e == EscapeResult(r, call.RxLength, g)
                        IN  EscapeLeave(e.ret, e.len, e.data)
            /\ call' = IF /\ res = "STATUS_SUCCESS"
                          /\ r.n >= CCID_RESPONSE_HEADER_SIZE
                          /\ ~IsTimeExt(r)
                          /\ IsFailed(r)
                       THEN [call EXCEPT !.log =
                                Append(@, <<EscapeSeverity(call.mayfail),
                                            r.bError>>)]
                       ELSE call
    /\ UNCHANGED <<ncalls, wire, unsent, t1, l, ref>>

(***************************************************************************)
(* CCID_Transmit                                                           *)
(***************************************************************************)
\* the command bytes a caller sends (fixed by their position)
TxBytes(n) == [i \in 1..n |-> i % 256]

\* lines 687-698: the XfrBlock frame
XfrBlockFrame(tx_length, rx_length, bBWI, slot, seq) ==
    Header(111, tx_length, slot, seq, bBWI,
           rx_length % 256, (rx_length \div 256) % 256)
    \o TxBytes(tx_length)

TransmitInputs == {<<4, 0, 0>>, <<5, 258, 3>>}

CCID_Transmit_Write ==
    \E in \in TransmitInputs, res \in Statuses :
        LET cmd == XfrBlockFrame(in[1], in[2], in[3],
                                 desc.bCurrentSlotIndex, desc.pbSeq)
        IN  /\ Enter([cmd |-> "CCID_Transmit",
                      entryTimeout |-> desc.readTimeout])
            /\ desc' = [desc EXCEPT !.pbSeq = NextSeq(@)]
            /\ io' = Append(io, WriteEvent(cmd, res, desc.readTimeout))
            /\ wire' = cmd[7]
            /\ unsent' = 0
            /\ Leave(IF CHECK_STATUS(res) # "" THEN CHECK_STATUS(res)
                     ELSE "IFD_SUCCESS", 0, <<>>)
            /\ UNCHANGED <<ncalls, t1, l, ref>>

(***************************************************************************)
(* CCID_Receive                                                            *)
(***************************************************************************)
\* the caller's buffer: its capacity (*rx_length) and whether it is NULL
RxBuffer(cap, null) == [cap |-> cap, null |-> null]
RxBuffers == {RxBuffer(1, FALSE), RxBuffer(3, FALSE)}
NullRxBuffers == {RxBuffer(0, TRUE), RxBuffer(3, TRUE)}

ReceiveResponses ==
    ShortResponses
    \cup FailedResponses({239, 240, 253, 5}, {0}, {0})
    \cup FailedResponses({254}, {0, 1, 2, 3}, {0})
    \cup FailedResponses({5}, {0}, {1})
    \cup TimeExtResponses({0, 2, 3})
    \cup DataResponses

\* line 728: the timeout put back after each read
RestoreTimeout_Keep(old_timeout, readTimeout) == readTimeout
RestoreTimeout(old_timeout, readTimeout) == old_timeout

\* lines 776-778: the timeout for the read after a time extension
ExtendTimeout(readTimeout, bError) ==
    IF bError > 0 THEN MulU32(readTimeout, bError) ELSE readTimeout

\* rx_buffer[0] = 0x64, rx_buffer[1] = sw2, *rx_length = 2 (lines 743-756);
\* writing through a NULL rx_buffer ends the process
Synthesized(rx, sw2) ==
    IF rx.cap < 2
    THEN [ret |-> "IFD_ERROR_INSUFFICIENT_BUFFER", len |-> rx.cap,
          data |-> <<>>]
    ELSE IF rx.null
    THEN [ret |-> "crash", len |-> rx.cap, data |-> <<>>]
    ELSE [ret |-> "IFD_SUCCESS", len |-> 2, data |-> <<100, sw2>>]

\* lines 737-770: a response with the command-failed flag
ReceiveFailed_Generic(r, rx) ==
    [ret |-> "IFD_COMMUNICATION_ERROR", len |-> rx.cap, data |-> <<>>]

ReceiveFailed(r, rx) ==
    IF r.bError = 239 THEN Synthesized(rx, 1)
    ELSE IF r.bError = 240 THEN Synthesized(rx, 0)
    ELSE IF r.bError = 253
    THEN [ret |-> "IFD_PARITY_ERROR", len |-> rx.cap, data |-> <<>>]
    ELSE IF r.bError = 254
    THEN [ret |-> IF HasBit(r.bStatus, 2) THEN "IFD_ICC_NOT_PRESENT"
                  ELSE "IFD_COMMUNICATION_ERROR",
          len |-> rx.cap, data |-> <<>>]
    ELSE [ret |-> "IFD_COMMUNICATION_ERROR", len |-> rx.cap, data |-> <<>>]

\* lines 784-817: a response that carries data
ReceiveData_Unclipped(r, rx, g) ==
    [ret |-> "IFD_SUCCESS", len |-> r.dwLength,
     data |-> CopyOut(r, r.dwLength, g)]

ReceiveData(r, rx, g) ==
    LET checked == IF r.n - 10 # r.dwLength
                   THEN "IFD_COMMUNICATION_ERROR" ELSE "IFD_SUCCESS"
        fits == r.dwLength <= rx.cap
        length == IF fits THEN r.dwLength ELSE rx.cap
        sized == IF fits THEN checked ELSE "IFD_ERROR_INSUFFICIENT_BUFFER"
    IN  IF length # 0 /\ rx.null
        THEN [ret |-> "IFD_COMMUNICATION_ERROR", len |-> length,
              data |-> <<>>]
        ELSE [ret |-> sized, len |-> length, data |-> CopyOut(r, length, g)]

\* what the caller of CCID_Receive does with the descriptor when it returns
AfterReceive(d) ==
    IF call.cmd \in {"SecurePINVerify", "SecurePINModify"}
    THEN [d EXCEPT !.readTimeout = call.old_read_timeout]
    ELSE d

ReceiveLeave(d, out) ==
    IF out.ret = "crash"
    THEN pc' = "crashed" /\ desc' = d /\ UNCHANGED result
    ELSE Leave(out.ret, out.len, out.data) /\ desc' = AfterReceive(d)

\* a direct call: lines 720-721, to the label time_request
CCID_Receive_Call ==
    \E rx \in RxBuffers \cup NullRxBuffers :
        /\ Enter([cmd |-> "CCID_Receive", rx |-> rx,
                  old_timeout |-> desc.readTimeout,
                  entryTimeout |-> desc.readTimeout])
        /\ pc' = "receive_time_request"
        /\ UNCHANGED <<desc, io, result, ncalls, wire, unsent, t1, l, ref>>

\* lines 723-817: from the label time_request on
CCID_Receive_Read ==
    /\ pc = "receive_time_request"
    /\ \E o \in ReadOutcomes(ReceiveResponses, 10 + CMD_BUF_SIZE) :
        LET res == o[1]
            r == o[2]
            restored == [desc EXCEPT !.readTimeout =
                            RestoreTimeout(call.old_timeout, @)]
            none == [ret |-> "", len |-> call.rx.cap, data |-> <<>>]
        IN  /\ io' = Append(io, ReadEvent(-1, 10 + CMD_BUF_SIZE, res, r))
            /\ IF CHECK_STATUS(res) # ""
               THEN ReceiveLeave(restored,
                                 [none EXCEPT !.ret = CHECK_STATUS(res)])
               ELSE IF r.n < CCID_RESPONSE_HEADER_SIZE
               THEN ReceiveLeave(restored,
                        [none EXCEPT !.ret = "IFD_COMMUNICATION_ERROR"])
               ELSE IF IsFailed(r)
               THEN ReceiveLeave(restored, ReceiveFailed(r, call.rx))
               ELSE IF IsTimeExt(r)
               THEN /\ desc' = [restored EXCEPT !.readTimeout =
                                    ExtendTimeout(@, r.bError)]
                    /\ pc' = "receive_time_request"
                    /\ UNCHANGED result
               ELSE \E g \in StaleChoices(r, Min(r.dwLength, call.rx.cap)) :
                        ReceiveLeave(restored, ReceiveData(r, call.rx, g))
    /\ UNCHANGED <<call, ncalls, wire, unsent, t1, l, ref>>

(***************************************************************************)
(* CmdXfrBlock and CmdXfrBlockTPDU_T0                                      *)
(***************************************************************************)
XfrLengths == {4, 261, 262, CMD_BUF_SIZE + 1}

\* lines 834-859: the command is too long for the reader or for the driver
\* (the difference is unsigned: under a maximum of less than 10 it is at
\* least 2^32 - 10 and no length exceeds it)
TPDUTooLong_NoException(tx_length, dwMaxCCIDMessageLength) ==
    \/ tx_length > dwMaxCCIDMessageLength - 10
    \/ tx_length > CMD_BUF_SIZE

TPDUTooLong(tx_length, dwMaxCCIDMessageLength) ==
    \/ /\ dwMaxCCIDMessageLength >= 10
       /\ tx_length > dwMaxCCIDMessageLength - 10
       /\ dwMaxCCIDMessageLength # 263
    \/ tx_length > CMD_BUF_SIZE

\* line 660: the exchange level of the reader is the one supported
ShortAPDULevel_OrCharacter(dwFeatures) ==
    BitAnd(dwFeatures, CCID_CLASS_EXCHANGE_MASK)
        \in {CCID_CLASS_SHORT_APDU, CCID_CLASS_CHARACTER}

ShortAPDULevel(dwFeatures) ==
    BitAnd(dwFeatures, CCID_CLASS_EXCHANGE_MASK) = CCID_CLASS_SHORT_APDU

\* a call that the exchange level or the length check ends at once
CmdXfrBlock_Reject ==
    \E tx_length \in XfrLengths, rx \in RxBuffers :
        /\ pc = "idle"
        /\ \/ ~ShortAPDULevel(desc.dwFeatures)
           \/ TPDUTooLong(tx_length, desc.dwMaxCCIDMessageLength)
        /\ Enter([cmd |-> "CmdXfrBlock", tx_length |-> tx_length, rx |-> rx,
                  entryTimeout |-> desc.readTimeout])
        /\ Leave("IFD_COMMUNICATION_ERROR", rx.cap, <<>>)
        /\ UNCHANGED <<desc, io, ncalls, wire, unsent, t1, l, ref>>

\* CmdXfrBlockTPDU_T0 to the end of CCID_Transmit, and into CCID_Receive
CmdXfrBlock_Transmit ==
    \E tx_length \in XfrLengths, rx \in RxBuffers, res \in Statuses :
        LET cmd == XfrBlockFrame(tx_length, 0, 0, desc.bCurrentSlotIndex,
                                 desc.pbSeq)
        IN  /\ pc = "idle"
            /\ ShortAPDULevel(desc.dwFeatures)
            /\ ~TPDUTooLong(tx_length, desc.dwMaxCCIDMessageLength)
            /\ Enter([cmd |-> "CmdXfrBlock", tx_length |-> tx_length,
                      rx |-> rx, old_timeout |-> desc.readTimeout,
                      entryTimeout |-> desc.readTimeout])
            /\ desc' = [desc EXCEPT !.pbSeq = NextSeq(@)]
            /\ io' = Append(io, WriteEvent(cmd, res, desc.readTimeout))
            /\ wire' = cmd[7]
            /\ unsent' = 0
            /\ IF CHECK_STATUS(res) # ""
               THEN Leave(CHECK_STATUS(res), rx.cap, <<>>)
               ELSE pc' = "receive_time_request" /\ UNCHANGED result
            /\ UNCHANGED <<ncalls, t1, l, ref>>

(***************************************************************************)
(* SecurePINVerify and SecurePINModify                                     *)
(*                                                                         *)
(* TxBuffer is the caller's PC/SC PIN block, a sequence of bytes; offsets  *)
(* are those of the C code (0-based).  hostBE tells whether the host reads *)
(* a 32-bit integer most significant byte first.                           *)
(***************************************************************************)
\* get_U32(): the 32-bit integer at offset x, in the byte order of the host
get_U32(a, x, hostBE) == IF hostBE THEN bei2i(a, x) ELSE dw2i(a, x)

\* p_bswap_16() and p_bswap_32() on the field at offset x
p_bswap_16(a, x) == [a EXCEPT ![x + 1] = a[x + 2], ![x + 2] = a[x + 1]]
p_bswap_32(a, x) ==
    [a EXCEPT ![x + 1] = a[x + 4], ![x + 2] = a[x + 3],
              ![x + 3] = a[x + 2], ![x + 4] = a[x + 1]]

\* the layout of a block: size of its fixed part, offsets of
\* wPINMaxExtraDigit, wLangId, ulDataLength and bEntryValidationCondition,
\* and the value of bPINOperation
VerifyLayout == [fixed |-> 19, extra |-> 5, lang |-> 9, len |-> 15,
                 evc |-> 7, op |-> 0]
ModifyLayout == [fixed |-> 24, extra |-> 7, lang |-> 12, len |-> 20,
                 evc |-> 10, op |-> 1]

\* lines 202 and 307: the block is too short
PinTooShort_Never(TxBuffer, L) == FALSE
PinTooShort(TxBuffer, L) == Len(TxBuffer) < L.fixed + 4

\* lines 210-220 and 315-325: the three fields put in little endian order
PinByteOrder_Always(TxBuffer, L, hostBE) ==
    p_bswap_32(p_bswap_16(p_bswap_16(TxBuffer, L.extra), L.lang), L.len)

PinByteOrder(TxBuffer, L, hostBE) ==
    LET ulDataLength == get_U32(TxBuffer, L.len, hostBE)
    IN  IF /\ AddU32(ulDataLength, L.fixed) = Len(TxBuffer)
           /\ bei2i(TxBuffer, L.len) = ulDataLength
        THEN p_bswap_32(p_bswap_16(p_bswap_16(TxBuffer, L.extra), L.lang),
                        L.len)
        ELSE TxBuffer

\* lines 223 and 329: the ulDataLength field does not fit the block
PinIncoherent_Never(TxBuffer, L) == FALSE
PinIncoherent(TxBuffer, L) ==
    AddU32(dw2i(TxBuffer, L.len), L.fixed) # Len(TxBuffer)

\* line 337: bNumberMessage of a PIN modification is not a valid count
BadNumberMessage(TxBuffer) == TxBuffer[12] > 3 /\ TxBuffer[12] # 255

\* lines 231-236 and 345-350: bEntryValidationCondition made valid
FixEntryValidation_None(TxBuffer, L) == TxBuffer
FixEntryValidation(TxBuffer, L) ==
    IF TxBuffer[L.evc + 1] = 0 \/ TxBuffer[L.evc + 1] > 7
    THEN [TxBuffer EXCEPT ![L.evc + 1] = 2]
    ELSE TxBuffer

\* the offsets the CCID frame does not carry
VerifySkipped(TxBuffer) == {1} \cup 15..18
ModifySkipped_Fixed(TxBuffer) == {1} \cup 20..23
ModifySkipped(TxBuffer) ==
    {1} \cup (IF TxBuffer[12] = 0 THEN {15} ELSE {})
        \cup (IF TxBuffer[12] < 3 THEN {16} ELSE {})
        \cup 20..23

\* lines 239-254 and 358-387: the bytes of the block the frame carries
Repack_Verbatim(TxBuffer, skipped) == TxBuffer
Repack(TxBuffer, skipped) ==
    LET kept == SelectSeq([i \in 1..Len(TxBuffer) |-> i],
                          LAMBDA i : (i - 1) \notin skipped)
    IN  [k \in 1..Len(kept) |-> TxBuffer[kept[k]]]

\* the Secure frame: header, bPINOperation, the repacked block
SecureFrame(TxBuffer, L, skipped, slot, seq) ==
    LET body == <<L.op>> \o Repack(TxBuffer, skipped)
    IN  Header(105, Len(body), slot, seq, 0, 0, 0) \o body

\* lines 259 and 393: the read timeout during the call, in milliseconds
PinTimeout_NoFloor(bTimeOut) == (bTimeOut + 10) * 1000
PinTimeout(bTimeOut) == max(90, bTimeOut + 10) * 1000

\* a PIN block of n bytes: each byte is its offset, but for those given
PinBlock(n, given) ==
    [i \in 1..n |-> IF (i - 1) \in DOMAIN given THEN given[i - 1]
                    ELSE i - 1]

\* ulDataLength = 4 in little endian, in big endian; 5 (incoherent);
\* bEntryValidationCondition = 7, 0, 255
VerifyBlocks ==
    {PinBlock(23, 15 :> 4 @@ 16 :> 0 @@ 17 :> 0 @@ 18 :> 0),
     PinBlock(23, 7 :> 255 @@ 15 :> 4 @@ 16 :> 0 @@ 17 :> 0 @@ 18 :> 0),
     PinBlock(23, 15 :> 0 @@ 16 :> 0 @@ 17 :> 0 @@ 18 :> 4),
     PinBlock(23, 0 :> 100 @@ 7 :> 0
                  @@ 15 :> 4 @@ 16 :> 0 @@ 17 :> 0 @@ 18 :> 0),
     PinBlock(23, 15 :> 5 @@ 16 :> 0 @@ 17 :> 0 @@ 18 :> 0),
     PinBlock(22, 15 :> 3 @@ 16 :> 0 @@ 17 :> 0 @@ 18 :> 0)}

\* bNumberMessage = 1, 255, 4, 0, 3; bEntryValidationCondition = 10, 0, 5
ModifyBlocks ==
    {PinBlock(28, 11 :> 1 @@ 20 :> 4 @@ 21 :> 0 @@ 22 :> 0 @@ 23 :> 0),
     PinBlock(28, 10 :> 0 @@ 11 :> 3
                  @@ 20 :> 4 @@ 21 :> 0 @@ 22 :> 0 @@ 23 :> 0),
     PinBlock(28, 10 :> 5 @@ 11 :> 0
                  @@ 20 :> 4 @@ 21 :> 0 @@ 22 :> 0 @@ 23 :> 0),
     PinBlock(28, 11 :> 255 @@ 20 :> 0 @@ 21 :> 0 @@ 22 :> 0 @@ 23 :> 4),
     PinBlock(28, 11 :> 4 @@ 20 :> 4 @@ 21 :> 0 @@ 22 :> 0 @@ 23 :> 0),
     PinBlock(28, 11 :> 0 @@ 20 :> 5 @@ 21 :> 0 @@ 22 :> 0 @@ 23 :> 0),
     PinBlock(27, 11 :> 0 @@ 20 :> 3 @@ 21 :> 0 @@ 22 :> 0 @@ 23 :> 0)}

\* the local validation of a block: "" when it passes
VerifyRejected(TxBuffer, hostBE) ==
    IF PinTooShort(TxBuffer, VerifyLayout) THEN "short"
    ELSE IF PinIncoherent(PinByteOrder(TxBuffer, VerifyLayout, hostBE),
                          VerifyLayout) THEN "length"
    ELSE ""

ModifyRejected(TxBuffer, hostBE) ==
    IF PinTooShort(TxBuffer, ModifyLayout) THEN "short"
    ELSE IF PinIncoherent(PinByteOrder(TxBuffer, ModifyLayout, hostBE),
                          ModifyLayout) THEN "length"
    ELSE IF BadNumberMessage(TxBuffer) THEN "count"
    ELSE ""

\* the body shared by the two commands, from the entry to the write of
\* the frame or to the rejection of the block; the call keeps the block as
\* given (TxBuffer0), after lines 210-220 (ordered) and as it is at the end
SecurePIN(cmd, TxBuffer0, hostBE, rx, res, L, rejected) ==
    LET ordered == IF rejected = "short" THEN TxBuffer0
                   ELSE PinByteOrder(TxBuffer0, L, hostBE)
        TxBuffer == IF rejected = "" THEN FixEntryValidation(ordered, L)
                    ELSE ordered
        skipped == IF cmd = "SecurePINVerify" THEN VerifySkipped(TxBuffer)
                   ELSE ModifySkipped(TxBuffer)
        frame == SecureFrame(TxBuffer, L, skipped, desc.bCurrentSlotIndex,
                             desc.pbSeq)
        timeout == PinTimeout(TxBuffer[1])
    IN  /\ Enter([cmd |-> cmd, TxBuffer0 |-> TxBuffer0, ordered |-> ordered,
                  TxBuffer |-> TxBuffer, hostBE |-> hostBE, rx |-> rx,
                  old_read_timeout |-> desc.readTimeout,
                  old_timeout |-> timeout,
                  entryTimeout |-> desc.readTimeout])
        /\ IF rejected # ""
           THEN /\ desc' = [desc EXCEPT !.pbSeq = NextSeq(@)]
                /\ Leave("IFD_NOT_SUPPORTED", rx.cap, <<>>)
                /\ unsent' = (unsent + 1) % BYTE_MOD
                /\ UNCHANGED <<io, wire>>
           ELSE /\ io' = Append(io, WriteEvent(frame, res, timeout))
                /\ wire' = frame[7]
                /\ unsent' = 0
                /\ IF res # "STATUS_SUCCESS"
                   THEN /\ desc' = [desc EXCEPT !.pbSeq = NextSeq(@)]
                        /\ Leave(IF res = "STATUS_NO_SUCH_DEVICE"
                                 THEN "IFD_NO_SUCH_DEVICE"
                                 ELSE "IFD_COMMUNICATION_ERROR",
                                 rx.cap, <<>>)
                   ELSE /\ desc' = [desc EXCEPT !.pbSeq = NextSeq(@),
                                                !.readTimeout = timeout]
                        /\ pc' = "receive_time_request"
                        /\ UNCHANGED result
        /\ UNCHANGED <<ncalls, t1, l, ref>>

\* SecurePINVerify on one of the given blocks
SecurePINVerify_On(blocks) ==
    \E TxBuffer \in blocks, hostBE \in BOOLEAN, rx \in RxBuffers,
       res \in Statuses :
        /\ pc = "idle"
        /\ VerifyRejected(TxBuffer, hostBE) # "" => res = "STATUS_SUCCESS"
        /\ SecurePIN("SecurePINVerify", TxBuffer, hostBE, rx, res,
                     VerifyLayout, VerifyRejected(TxBuffer, hostBE))

SecurePINVerify_Call == SecurePINVerify_On(VerifyBlocks)

\* SecurePINModify on one of the given blocks
SecurePINModify_On(blocks) ==
    \E TxBuffer \in blocks, hostBE \in BOOLEAN, rx \in RxBuffers,
       res \in Statuses :
        /\ pc = "idle"
        /\ ModifyRejected(TxBuffer, hostBE) # "" => res = "STATUS_SUCCESS"
        /\ SecurePIN("SecurePINModify", TxBuffer, hostBE, rx, res,
                     ModifyLayout, ModifyRejected(TxBuffer, hostBE))

SecurePINModify_Call == SecurePINModify_On(ModifyBlocks)

Next ==
    \/ CmdPowerOff_Write
    \/ CmdPowerOff_Read
    \/ CmdGetSlotStatus_Write
    \/ CmdGetSlotStatus_Read
    \/ SetParameters_Write
    \/ SetParameters_Read
    \/ CmdPowerOn_Call
    \/ CmdPowerOn_Check5V
    \/ CmdPowerOn_Check3V
    \/ CmdPowerOn_Check1V8
    \/ CmdPowerOn_Write
    \/ CmdPowerOn_Read
    \/ CmdEscapeCheck_Call
    \/ CmdEscapeCheck_AllocFail
    \/ CmdEscapeCheck_Write
    \/ CmdEscapeCheck_Read
    \/ CCID_Transmit_Write
    \/ CCID_Receive_Call
    \/ CCID_Receive_Read
    \/ CmdXfrBlock_Reject
    \/ CmdXfrBlock_Transmit
    \/ SecurePINVerify_Call
    \/ SecurePINModify_Call
    \/ Return

Spec == Init /\ [][Next]_vars

(***************************************************************************)
(* CmdPowerOn alone, on readers with every voltage support from 0 to 8,    *)
(* with and without automatic voltage selection.  The thread that runs the *)
(* command is never stopped: FairSpecPowerOn.                              *)
(***************************************************************************)
VoltageSupports == 0..8

PowerOnReaders ==
    {Reader(f, v, 271, 0) :
        f \in {CCID_CLASS_SHORT_APDU,
               CCID_CLASS_SHORT_APDU + CCID_CLASS_AUTO_VOLTAGE},
        v \in VoltageSupports}

InitPowerOn ==
    /\ desc \in PowerOnReaders
    /\ pc = "idle"
    /\ call = NoCall
    /\ io = <<>>
    /\ result = NoResult
    /\ ncalls = 0
    /\ wire = -1
    /\ unsent = 0
    /\ t1 = t1_init(T1Uninit(0), 0)
    /\ l = list_init
    /\ ref = <<>>

NextPowerOn ==
    \/ CmdPowerOn_Call
    \/ CmdPowerOn_Check5V
    \/ CmdPowerOn_Check3V
    \/ CmdPowerOn_Check1V8
    \/ CmdPowerOn_Write
    \/ CmdPowerOn_Read
    \/ Return

SpecPowerOn == InitPowerOn /\ [][NextPowerOn]_vars

FairSpecPowerOn == SpecPowerOn /\ WF_vars(NextPowerOn)

(***************************************************************************)
(* The sequence counter over any number of commands: frames written by     *)
(* CCID_Transmit, and SecurePINVerify and SecurePINModify calls on a block *)
(* that is rejected.                                                       *)
(***************************************************************************)
ShortVerifyBlocks == {b \in VerifyBlocks : PinTooShort(b, VerifyLayout)}
ShortModifyBlocks == {b \in ModifyBlocks : PinTooShort(b, ModifyLayout)}

NextSeqCounter ==
    \/ CCID_Transmit_Write
    \/ SecurePINVerify_On(ShortVerifyBlocks)
    \/ SecurePINModify_On(ShortModifyBlocks)
    \/ ReturnUncounted

SpecSeqCounter == Init /\ [][NextSeqCounter]_vars

(***************************************************************************)
(* CmdXfrBlock alone, on readers of every exchange level, with maximum     *)
(* message lengths of 263 and 271.                                         *)
(***************************************************************************)
XfrLevels ==
    {CCID_CLASS_CHARACTER, CCID_CLASS_TPDU, CCID_CLASS_SHORT_APDU,
     CCID_CLASS_EXTENDED_APDU, CCID_CLASS_TPDU + CCID_CLASS_SHORT_APDU}

XfrReaders ==
    {Reader(level + other, 7, m, 0) :
        level \in XfrLevels, other \in {0, CCID_CLASS_AUTO_VOLTAGE},
        m \in {263, 271}}

InitXfrBlock ==
    /\ desc \in XfrReaders
    /\ pc = "idle"
    /\ call = NoCall
    /\ io = <<>>
    /\ result = NoResult
    /\ ncalls = 0
    /\ wire = -1
    /\ unsent = 0
    /\ t1 = t1_init(T1Uninit(0), 0)
    /\ l = list_init
    /\ ref = <<>>

NextXfrBlock ==
    \/ CmdXfrBlock_Reject
    \/ CmdXfrBlock_Transmit
    \/ CCID_Receive_Read
    \/ Return

SpecXfrBlock == InitXfrBlock /\ [][NextXfrBlock]_vars

(***************************************************************************)
(* The T=1 state alone: t1_init on memory of any content, then any number  *)
(* of t1_set_param calls, with types in and out of the enumeration.        *)
(***************************************************************************)
T1Stale == {0, 204}
T1Luns == {0, 1}
T1Types == -1..8
T1Values == {-1, 0, DEAD, 254}

\* a t1_set_param call, from its entry to its return
t1_set_param_Call ==
    \E type \in T1Types, value \in T1Values :
        LET r == t1_set_param(t1, type, value)
        IN  /\ Enter([cmd |-> "t1_set_param", type |-> type,
                      value |-> value, before |-> t1])
            /\ t1' = r.t1
            /\ Leave(r.ret, 0, <<>>)
            /\ UNCHANGED <<desc, io, ncalls, wire, unsent, l, ref>>

InitT1 ==
    /\ desc \in {Reader(CCID_CLASS_TPDU, 7, 271, 0)}
    /\ pc = "idle"
    /\ call = NoCall
    /\ io = <<>>
    /\ result = NoResult
    /\ ncalls = 0
    /\ wire = -1
    /\ unsent = 0
    /\ t1 \in {t1_init(T1Uninit(g), lun) : g \in T1Stale, lun \in T1Luns}
    /\ l = list_init
    /\ ref = <<>>

NextT1 ==
    \/ t1_set_param_Call
    \/ ReturnUncounted

SpecT1 == InitT1 /\ [][NextT1]_vars

(***************************************************************************)
(* The secure PIN commands alone, SecurePINModify also on blocks with      *)
(* bNumberMessage = 2 and 200.                                             *)
(***************************************************************************)
NumberMessageBlocks ==
    {PinBlock(28, 11 :> n @@ 20 :> 4 @@ 21 :> 0 @@ 22 :> 0 @@ 23 :> 0) :
        n \in {2, 200}}

NextSecurePIN ==
    \/ SecurePINVerify_Call
    \/ SecurePINModify_On(ModifyBlocks \cup NumberMessageBlocks)
    \/ CCID_Receive_Read
    \/ Return

SpecSecurePIN == Init /\ [][NextSecurePIN]_vars

(***************************************************************************)
(* The list alone: list_init, then any number of list_append,              *)
(* list_insert_at and list_clear calls.  The element put in is a pointer   *)
(* the list does not hold yet.  call and result keep the last call and the *)
(* value it returned, ncalls counts the calls.                             *)
(***************************************************************************)
MaxListCalls == 9

ListData(list) == 100 + list.numels

list_insert_at_Call ==
    \E pos \in 0..(l.numels + 1), malloc_ok \in BOOLEAN :
        LET data == ListData(l)
            r == list_insert_at(l, data, pos, malloc_ok)
        IN  /\ ncalls < MaxListCalls
            /\ l.numels < MaxListLen
            /\ ~malloc_ok => (l.spareelsnum = 0 /\ pos <= l.numels)
            /\ call' = [cmd |-> "list_insert_at", data |-> data, pos |-> pos,
                        size |-> list_size(l)]
            /\ result' = [ret |-> r.ret, len |-> 0, data |-> <<>>]
            /\ l' = r.l
            /\ ref' = IF r.ret > 0
                      THEN SubSeq(ref, 1, pos) \o <<data>>
                               \o SubSeq(ref, pos + 1, Len(ref))
                      ELSE ref
            /\ ncalls' = ncalls + 1
            /\ UNCHANGED <<desc, pc, io, wire, unsent, t1>>

list_append_Call ==
    \E malloc_ok \in BOOLEAN :
        LET data == ListData(l)
            r == list_append(l, data, malloc_ok)
        IN  /\ ncalls < MaxListCalls
            /\ l.numels < MaxListLen
            /\ ~malloc_ok => l.spareelsnum = 0
            /\ call' = [cmd |-> "list_append", data |-> data,
                        pos |-> l.numels, size |-> list_size(l)]
            /\ result' = [ret |-> r.ret, len |-> 0, data |-> <<>>]
            /\ l' = r.l
            /\ ref' = IF r.ret > 0 THEN Append(ref, data) ELSE ref
            /\ ncalls' = ncalls + 1
            /\ UNCHANGED <<desc, pc, io, wire, unsent, t1>>

list_clear_Call ==
    LET r == list_clear(l)
    IN  /\ ncalls < MaxListCalls
        /\ call' = [cmd |-> "list_clear", data |-> NULL, pos |-> 0,
                    size |-> list_size(l)]
        /\ result' = [ret |-> r.ret, len |-> 0, data |-> <<>>]
        /\ l' = r.l
        /\ ref' = <<>>
        /\ ncalls' = ncalls + 1
        /\ UNCHANGED <<desc, pc, io, wire, unsent, t1>>

InitList ==
    /\ desc \in {Reader(CCID_CLASS_TPDU, 7, 271, 0)}
    /\ pc = "idle"
    /\ call = NoCall
    /\ io = <<>>
    /\ result = NoResult
    /\ ncalls = 0
    /\ wire = -1
    /\ unsent = 0
    /\ t1 = t1_init(T1Uninit(0), 0)
    /\ l = list_init
    /\ ref = <<>>

NextList ==
    \/ list_insert_at_Call
    \/ list_append_Call
    \/ list_clear_Call

SpecList == InitList /\ [][NextList]_vars

(***************************************************************************)
(* The commands that read their response through CCID_Receive.             *)
(***************************************************************************)
ReceiveCallers ==
    {"CCID_Receive", "CmdXfrBlock", "SecurePINVerify", "SecurePINModify"}

(***************************************************************************)
(* Properties.                                                             *)
(***************************************************************************)

\* C1: in every CmdPowerOn call each of the voltages 5V, 3V and 1.8V is
\* carried by at most one PowerOn frame, and the call returns.
C1_PowerOnReturns ==
    /\ [](call.cmd = "CmdPowerOn" =>
            \A v \in Voltages :
                Cardinality({i \in Writes : io[i].frame[8] = v}) <= 1)
    /\ (call.cmd = "CmdPowerOn") ~> (pc = "done")

\* C2: when CCID_Receive (also within the XfrBlock exchange), SecurePINVerify,
\* SecurePINModify or CmdEscapeCheck returns, the read timeout of the
\* descriptor is the one it had when the call was entered.
C2_TimeoutRestored ==
    (pc = "done" /\ call.cmd \in ReceiveCallers \cup {"CmdEscapeCheck"})
        => desc.readTimeout = call.entryTimeout

\* CCID_Receive has returned after time extensions by 2 and by 3
C2_Witness ==
    /\ pc = "done"
    /\ call.cmd = "CCID_Receive"
    /\ Len(io) = 3
    /\ IsTimeExt(io[1].resp) /\ io[1].resp.bError = 2
    /\ IsTimeExt(io[2].resp) /\ io[2].resp.bError = 3
    /\ io[2].timeout # call.entryTimeout
    /\ io[3].timeout # call.entryTimeout
    /\ result.ret = "IFD_SUCCESS"

\* C3 (as stated): in every command the read that follows a write is given
\* the sequence byte of the frame just written as the expected sequence.
C3_ReadExpectsWrittenSeq ==
    \A i \in Reads :
        (i > 1 /\ io[i - 1].op = "write") => io[i].bSeq = io[i - 1].frame[7]

\* C3 (amended): in PowerOn, PowerOff, GetSlotStatus, SetParameters and
\* Escape every read is given the sequence byte of the last frame written;
\* in the XfrBlock exchange and in the Secure PIN commands every read is
\* given -1.
C3_ReadExpectedSeq ==
    \A i \in Reads :
        IF call.cmd \in ReceiveCallers
        THEN io[i].bSeq = -1
        ELSE \E w \in Writes :
                /\ w < i
                /\ \A x \in Writes : x < i => x <= w
                /\ io[i].bSeq = io[w].frame[7]

\* the read of an XfrBlock exchange, after the frame with sequence byte 0
C3_Witness ==
    /\ call.cmd = "CmdXfrBlock"
    /\ Len(io) = 2
    /\ io[1].op = "write" /\ io[1].frame[7] = 0
    /\ io[2].op = "read" /\ io[2].bSeq = -1

\* C4 (as stated): a frame written carries the value of the counter, which
\* then advances by 1 modulo 256, and its sequence byte is not that of the
\* frame written before it.
C4_ConsecutiveFramesDiffer ==
    [][(Len(io') = Len(io) + 1 /\ io'[Len(io')].op = "write") =>
            /\ io'[Len(io')].frame[7] = desc.pbSeq
            /\ desc'.pbSeq = (desc.pbSeq + 1) % 256
            /\ wire # -1 => io'[Len(io')].frame[7] # wire]_vars

\* C4 (amended): a frame written carries the value of the counter; the
\* counter advances by 1 modulo 256 when a frame is built, written or not (a
\* Secure PIN call that is rejected builds one), and at no other step; the
\* sequence byte of a frame is that of the frame written before it exactly
\* when 255 frames (modulo 256) were built and not written in between.
C4_SequenceCounter ==
    [][LET written == Len(io') = Len(io) + 1 /\ io'[Len(io')].op = "write"
           rejected == /\ pc = "idle" /\ pc' = "done" /\ io' = <<>>
                       /\ call'.cmd \in {"SecurePINVerify", "SecurePINModify"}
       IN  /\ written =>
                /\ io'[Len(io')].frame[7] = desc.pbSeq
                /\ wire # -1 =>
                    (io'[Len(io')].frame[7] = wire <=> unsent = 255)
           /\ IF written \/ rejected
              THEN desc'.pbSeq = (desc.pbSeq + 1) % 256
                   /\ desc'.pbSeq # desc.pbSeq
              ELSE desc'.pbSeq = desc.pbSeq]_vars

\* the frame with sequence byte 255 is written and the counter is back at 0
C4_Witness ==
    /\ pc = "done"
    /\ Len(io) = 1
    /\ io[1].op = "write" /\ io[1].frame[7] = 255
    /\ desc.pbSeq = 0

\* C5: CCID_Receive returns communication-error for every response without
\* the command-failed and time-extension flags whose declared length is not
\* the number of payload bytes read.
C5_MismatchIsCommunicationError ==
    (/\ pc = "done"
     /\ call.cmd \in ReceiveCallers
     /\ Len(io) > 0
     /\ io[Len(io)].op = "read"
     /\ io[Len(io)].res = "STATUS_SUCCESS"
     /\ io[Len(io)].resp.n >= 10
     /\ ~IsFailed(io[Len(io)].resp)
     /\ ~IsTimeExt(io[Len(io)].resp)
     /\ io[Len(io)].resp.n - 10 # io[Len(io)].resp.dwLength)
        => result.ret = "IFD_COMMUNICATION_ERROR"

C7_AtrClipped ==
    (pc = "done" /\ call.cmd = "CmdPowerOn" /\ result.ret = "IFD_SUCCESS")
        => /\ result.len = Min(io[Len(io)].resp.dwLength, call.nlength)
           /\ Len(result.data) = result.len
           /\ result.len <= call.nlength

\* an ATR of 4 bytes declared, a buffer of 2
C7_Witness ==
    /\ pc = "done"
    /\ call.cmd = "CmdPowerOn"
    /\ result.ret = "IFD_SUCCESS"
    /\ call.nlength = 2
    /\ io[Len(io)].resp.dwLength = 4
    /\ io[Len(io)].resp.n = 14
    /\ result.data = <<PayloadByte(1), PayloadByte(2)>>

C9_TransportFailureEndsCall ==
    \A i \in 1..Len(io) :
        /\ io[i].res = "STATUS_NO_SUCH_DEVICE" =>
            /\ i = Len(io)
            /\ pc = "done"
            /\ result.ret = "IFD_NO_SUCH_DEVICE"
        /\ io[i].res \notin {"STATUS_SUCCESS", "STATUS_COMM_NAK",
                             "STATUS_NO_SUCH_DEVICE"} =>
            /\ i = Len(io)
            /\ pc = "done"
            /\ result.ret = "IFD_COMMUNICATION_ERROR"

\* the reader is removed between the write and the read of a PowerOn
C9_Witness ==
    /\ pc = "done"
    /\ call.cmd = "CmdPowerOn"
    /\ Len(io) = 2
    /\ io[1].op = "write" /\ io[1].res = "STATUS_SUCCESS"
    /\ io[2].op = "read" /\ io[2].res = "STATUS_NO_SUCH_DEVICE"
    /\ result.ret = "IFD_NO_SUCH_DEVICE"

\* C10: a call whose input fails the local validation (a PIN block shorter
\* than 23 bytes for Verify or 28 for Modify, a data length field that does
\* not fit the block, a message count outside 0..3 and 255; a TPDU command
\* longer than the limit of the reader or of the driver; an exchange level
\* that is not supported) does no transport write and no transport read.
C10_RejectedBeforeTransport ==
    LET tooShort(n) == Len(call.TxBuffer0) < n
        misfit(x, fixed) == dw2i(call.TxBuffer, x) + fixed # Len(call.TxBuffer)
        invalid ==
            CASE call.cmd = "SecurePINVerify" ->
                    tooShort(23) \/ misfit(15, 19)
              [] call.cmd = "SecurePINModify" ->
                    \/ tooShort(28)
                    \/ misfit(20, 24)
                    \/ call.TxBuffer0[12] \notin {0, 1, 2, 3, 255}
              [] call.cmd = "CmdXfrBlock" ->
                    \/ (desc.dwFeatures \div 65536) % 8 # 2
                    \/ call.tx_length > CMD_BUF_SIZE
                    \/ /\ call.tx_length > desc.dwMaxCCIDMessageLength - 10
                       /\ desc.dwMaxCCIDMessageLength # 263
              [] OTHER -> FALSE
    IN  invalid =>
            /\ io = <<>>
            /\ pc = "done"
            /\ result.ret \in {"IFD_NOT_SUPPORTED", "IFD_COMMUNICATION_ERROR"}

\* a PIN modification with a message count of 4 is rejected
C10_Witness ==
    /\ pc = "done"
    /\ call.cmd = "SecurePINModify"
    /\ Len(call.TxBuffer0) = 28
    /\ call.TxBuffer0[12] = 4
    /\ io = <<>>
    /\ result.ret = "IFD_NOT_SUPPORTED"

\* C11: SecurePINVerify returns not-supported for every block shorter than 23
\* bytes and SecurePINModify for every block shorter than 28 bytes; for a
\* block of at least that size both return not-supported whenever the data
\* length field (little endian, after the byte-order correction) plus the
\* size of the fixed part (19, 24) is not the length of the block.
C11_BadLengthNotSupported ==
    LET fixed == IF call.cmd = "SecurePINVerify" THEN 19 ELSE 24
        n == Len(call.TxBuffer0)
        b == call.ordered
        ulDataLength(x) ==
            <<b[x + 4] * 256 + b[x + 3], b[x + 2] * 256 + b[x + 1]>>
    IN  (/\ call.cmd \in {"SecurePINVerify", "SecurePINModify"}
         /\ \/ n < fixed + 4
            \/ ulDataLength(fixed - 4) # <<0, n - fixed>>)
            => /\ pc = "done"
               /\ result.ret = "IFD_NOT_SUPPORTED"

\* a PIN verification block of 23 bytes that declares 5 bytes of data, and a
\* PIN modification block of 27 bytes, are refused
C11_Witness ==
    /\ pc = "done"
    /\ result.ret = "IFD_NOT_SUPPORTED"
    /\ \/ /\ call.cmd = "SecurePINVerify"
          /\ Len(call.TxBuffer0) = 23
          /\ call.ordered[16] = 5 /\ call.ordered[19] = 0
       \/ /\ call.cmd = "SecurePINModify"
          /\ Len(call.TxBuffer0) = 27

\* C12 (as stated): the byte-order correction leaves unaltered a block whose
\* data length field is little endian and fits the block, and reverses the
\* bytes of the fields extra-digit count, language id and data length, and
\* of nothing else, in a block whose data length field is big endian and
\* fits the block.
C12_ByteOrderCorrected ==
    LET L == IF call.cmd = "SecurePINVerify" THEN VerifyLayout
             ELSE ModifyLayout
        b == call.TxBuffer0
        n == Len(b)
        x == L.len
        little == b[x + 4] = 0 /\ b[x + 3] = 0
                  /\ b[x + 2] * 256 + b[x + 1] + L.fixed = n
        big == b[x + 1] = 0 /\ b[x + 2] = 0
               /\ b[x + 3] * 256 + b[x + 4] + L.fixed = n
        reversed ==
            [i \in 1..n |->
                CASE i = L.extra + 1 -> b[L.extra + 2]
                  [] i = L.extra + 2 -> b[L.extra + 1]
                  [] i = L.lang + 1 -> b[L.lang + 2]
                  [] i = L.lang + 2 -> b[L.lang + 1]
                  [] i \in (x + 1)..(x + 4) -> b[2 * x + 5 - i]
                  [] OTHER -> b[i]]
    IN  (/\ call.cmd \in {"SecurePINVerify", "SecurePINModify"}
         /\ n >= L.fixed + 4)
            => /\ little => call.ordered = b
               /\ big => call.ordered = reversed

\* C12 (amended): the correction leaves unaltered a block whose data length
\* field is little endian and fits the block; a block whose field is big
\* endian and fits the block has the three fields reversed, and nothing
\* else, on a host that reads integers most significant byte first, and on
\* any other host is left unaltered and refused with not-supported; applied
\* to its own result the correction changes nothing.
C12_ByteOrderCorrectedOnBigEndianHost ==
    LET L == IF call.cmd = "SecurePINVerify" THEN VerifyLayout
             ELSE ModifyLayout
        b == call.TxBuffer0
        n == Len(b)
        x == L.len
        little == b[x + 4] = 0 /\ b[x + 3] = 0
                  /\ b[x + 2] * 256 + b[x + 1] + L.fixed = n
        big == b[x + 1] = 0 /\ b[x + 2] = 0
               /\ b[x + 3] * 256 + b[x + 4] + L.fixed = n
        reversed ==
            [i \in 1..n |->
                CASE i = L.extra + 1 -> b[L.extra + 2]
                  [] i = L.extra + 2 -> b[L.extra + 1]
                  [] i = L.lang + 1 -> b[L.lang + 2]
                  [] i = L.lang + 2 -> b[L.lang + 1]
                  [] i \in (x + 1)..(x + 4) -> b[2 * x + 5 - i]
                  [] OTHER -> b[i]]
    IN  (/\ call.cmd \in {"SecurePINVerify", "SecurePINModify"}
         /\ n >= L.fixed + 4)
            => /\ little => call.ordered = b
               /\ (big /\ call.hostBE) =>
                    /\ call.ordered = reversed
                    /\ call.ordered # b
               /\ (big /\ ~call.hostBE) =>
                    /\ call.ordered = b
                    /\ pc = "done"
                    /\ result.ret = "IFD_NOT_SUPPORTED"
               /\ PinByteOrder(call.ordered, L, call.hostBE) = call.ordered

\* a PIN verification block with a big endian data length of 4 was put in
\* little endian order on a big endian host
C12_Witness ==
    /\ call.cmd = "SecurePINVerify"
    /\ call.hostBE
    /\ Len(call.TxBuffer0) = 23
    /\ call.TxBuffer0[16] = 0 /\ call.TxBuffer0[19] = 4
    /\ call.TxBuffer0[6] = 5 /\ call.TxBuffer0[7] = 6
    /\ call.ordered[16] = 4 /\ call.ordered[19] = 0
    /\ call.ordered[6] = 6 /\ call.ordered[7] = 5

\* C13: in every Secure frame written by SecurePINVerify or SecurePINModify
\* the entry validation condition (byte 17 of the frame of a verification,
\* byte 20 of the frame of a modification) is in 1..7: it is 2 when the byte
\* of the block given is 0 or above 7, and the byte given otherwise.
C13_EntryValidationInRange ==
    \A w \in Writes :
        call.cmd \in {"SecurePINVerify", "SecurePINModify"} =>
            LET given == IF call.cmd = "SecurePINVerify"
                         THEN call.TxBuffer0[8] ELSE call.TxBuffer0[11]
                sent == IF call.cmd = "SecurePINVerify"
                        THEN io[w].frame[18] ELSE io[w].frame[21]
            IN  /\ sent \in 1..7
                /\ (given = 0 \/ given > 7) => sent = 2
                /\ given \in 1..7 => sent = given

\* frames were written for a condition given as 255 and for one given as 5
C13_Witness ==
    /\ Len(io) > 0
    /\ io[1].op = "write"
    /\ \/ /\ call.cmd = "SecurePINVerify"
          /\ call.TxBuffer0[8] = 255
          /\ io[1].frame[18] = 2
       \/ /\ call.cmd = "SecurePINModify"
          /\ call.TxBuffer0[11] = 5
          /\ io[1].frame[21] = 5

\* C14: in a SecurePINVerify or SecurePINModify call that passes validation
\* the read timeout in force when the Secure frame is written, and when the
\* first response is read, is the larger of 90 seconds and the first byte
\* of the block plus 10 seconds, in milliseconds, whatever it was before.
C14_PinTimeoutInForce ==
    (/\ call.cmd \in {"SecurePINVerify", "SecurePINModify"}
     /\ Len(io) > 0)
        => LET bTimeOut == call.TxBuffer0[1]
               seconds == IF bTimeOut + 10 > 90 THEN bTimeOut + 10 ELSE 90
           IN  /\ io[1].op = "write"
               /\ io[1].timeout = seconds * 1000
               /\ Len(io) > 1 =>
                    /\ io[2].op = "read"
                    /\ io[2].timeout = seconds * 1000

\* the first response of a PIN verification with a first byte of 100 was
\* read with a timeout of 110 seconds, the timeout before the call being 3
C14_Witness ==
    /\ call.cmd = "SecurePINVerify"
    /\ call.TxBuffer0[1] = 100
    /\ call.entryTimeout = 3000
    /\ Len(io) > 1
    /\ io[1].timeout = 110000
    /\ io[2].op = "read"
    /\ io[2].timeout = 110000

\* C15: CmdGetSlotStatus returns success when the response has the
\* command-failed flag and the error byte 0xFE (card absent or mute), and
\* communication-error when it has the flag and any other error byte.
C15_AbsentCardIsSuccess ==
    (/\ pc = "done"
     /\ call.cmd = "CmdGetSlotStatus"
     /\ Len(io) = 2
     /\ io[2].res = "STATUS_SUCCESS"
     /\ io[2].resp.n >= 10
     /\ (io[2].resp.bStatus \div 64) % 2 = 1)
        => result.ret = IF io[2].resp.bError = 254 THEN "IFD_SUCCESS"
                        ELSE "IFD_COMMUNICATION_ERROR"

\* command failed with error 0xFE and no card in the slot: success
C15_Witness ==
    /\ pc = "done"
    /\ call.cmd = "CmdGetSlotStatus"
    /\ Len(io) = 2
    /\ io[2].res = "STATUS_SUCCESS"
    /\ io[2].resp.bStatus = 64 + 2
    /\ io[2].resp.bError = 254
    /\ result.ret = "IFD_SUCCESS"

\* C16: the mayfail flag of CmdEscapeCheck changes only the priority of the
\* log entry: the return code, *RxLength, the bytes given back, the frames
\* written and the descriptor left behind are those fixed by the other
\* arguments and by what the transport did, whatever mayfail is; a response
\* with the command-failed flag is logged with the priority mayfail selects
\* and gives communication-error.
C16_MayfailOnlyLogSeverity ==
    (pc = "done" /\ call.cmd = "CmdEscapeCheck") =>
        LET last == io[Len(io)]
            r == last.resp
            failed == (r.bStatus \div 64) % 2 = 1
            answered == /\ Len(io) > 0
                        /\ last.op = "read"
                        /\ last.res = "STATUS_SUCCESS"
                        /\ r.n >= 10
            delivered == IF r.dwLength > call.RxLength THEN call.RxLength
                         ELSE r.dwLength
            ret == IF Len(io) = 0 THEN "IFD_COMMUNICATION_ERROR"
                   ELSE IF last.res = "STATUS_NO_SUCH_DEVICE"
                   THEN "IFD_NO_SUCH_DEVICE"
                   ELSE IF last.res # "STATUS_SUCCESS" \/ r.n < 10
                   THEN "IFD_COMMUNICATION_ERROR"
                   ELSE IF failed THEN "IFD_COMMUNICATION_ERROR"
                   ELSE IF r.dwLength > call.RxLength
                   THEN "IFD_ERROR_INSUFFICIENT_BUFFER"
                   ELSE "IFD_SUCCESS"
        IN  /\ result.ret = ret
            /\ result.len = IF answered THEN delivered ELSE call.RxLength
            /\ answered =>
                    \A i \in 1..delivered :
                        i <= r.n - 10 => result.data[i] = r.data[i]
            /\ \A w \in Writes :
                    io[w].frame =
                        <<107, Len(call.TxBuffer), 0, 0, 0,
                          desc.bCurrentSlotIndex,
                          (io[1].frame[7]
                            + Cardinality({x \in Writes : x < w})) % 256,
                          0, 0, 0>>
                        \o call.TxBuffer
            /\ desc.readTimeout = call.entryTimeout
            /\ Len(io) > 0 =>
                    desc.pbSeq = (io[1].frame[7] + Cardinality(Writes)) % 256
            /\ call.log = IF answered /\ failed
                          THEN << <<IF call.mayfail THEN "PCSC_LOG_INFO"
                                    ELSE "PCSC_LOG_ERROR", r.bError>> >>
                          ELSE <<>>

\* with mayfail set, a response with the command-failed flag that declares
\* no data was logged as information and gave communication-error
C16_Witness ==
    /\ pc = "done"
    /\ call.cmd = "CmdEscapeCheck"
    /\ call.mayfail
    /\ Len(io) = 2
    /\ io[2].resp.bStatus = 64
    /\ io[2].resp.dwLength = 0
    /\ call.log = << <<"PCSC_LOG_INFO", 10>> >>
    /\ result.ret = "IFD_COMMUNICATION_ERROR"

\* C17: SetParameters maps a response with the command-failed flag by its
\* error byte: 0 gives not-supported, 1..127 success, 128..255
\* communication-error; a response without the flag gives success.
C17_SetParametersMapping ==
    (/\ pc = "done"
     /\ call.cmd = "SetParameters"
     /\ Len(io) = 2
     /\ io[2].res = "STATUS_SUCCESS"
     /\ io[2].resp.n >= 10)
        => LET bError == io[2].resp.bError
           IN  result.ret =
                   IF (io[2].resp.bStatus \div 64) % 2 = 0 THEN "IFD_SUCCESS"
                   ELSE IF bError = 0 THEN "IFD_NOT_SUPPORTED"
                   ELSE IF bError \in 1..127 THEN "IFD_SUCCESS"
                   ELSE "IFD_COMMUNICATION_ERROR"

\* command failed with the error byte 127: success
C17_Witness ==
    /\ pc = "done"
    /\ call.cmd = "SetParameters"
    /\ Len(io) = 2
    /\ io[2].res = "STATUS_SUCCESS"
    /\ io[2].resp.bStatus = 64
    /\ io[2].resp.bError = 127
    /\ result.ret = "IFD_SUCCESS"

\* C18 (as stated): CmdXfrBlock hands the command to the short-APDU/TPDU
\* exchange exactly when the exchange level of the reader (dwFeatures under
\* the exchange mask) is short APDU or character; at every other level it
\* returns communication-error and sends nothing.
C18_RoutedAtShortAPDUOrCharacter ==
    call.cmd = "CmdXfrBlock" =>
        LET level == (desc.dwFeatures \div 65536) % 8
        IN  IF level \in {2, 0}
            THEN call.tx_length <= 253 =>
                    /\ Len(io) > 0
                    /\ io[1].op = "write"
                    /\ io[1].frame[1] = 111
            ELSE /\ pc = "done"
                 /\ io = <<>>
                 /\ result.ret = "IFD_COMMUNICATION_ERROR"

\* C18 (amended): CmdXfrBlock hands the command to the short-APDU/TPDU
\* exchange exactly when the exchange level of the reader is short APDU
\* (0x00020000); at every other level, the character level (0) included, it
\* returns communication-error and sends nothing.
C18_RoutedAtShortAPDUOnly ==
    call.cmd = "CmdXfrBlock" =>
        LET level == (desc.dwFeatures \div 65536) % 8
        IN  IF level = 2
            THEN call.tx_length <= 253 =>
                    /\ Len(io) > 0
                    /\ io[1].op = "write"
                    /\ io[1].frame[1] = 111
            ELSE /\ pc = "done"
                 /\ io = <<>>
                 /\ result.ret = "IFD_COMMUNICATION_ERROR"

\* a command of 4 bytes was refused by a reader of the character level
C18_Witness ==
    /\ pc = "done"
    /\ call.cmd = "CmdXfrBlock"
    /\ call.tx_length = 4
    /\ (desc.dwFeatures \div 65536) % 8 = 0
    /\ io = <<>>
    /\ result.ret = "IFD_COMMUNICATION_ERROR"

C20_SetParamFrame ==
    (pc = "done" /\ call.cmd = "t1_set_param") =>
        LET named == CASE call.type \in {1, 2} -> "rc_bytes"
                       [] call.type = 3 -> "ifsc"
                       [] call.type = 4 -> "ifsd"
                       [] call.type = 5 -> "state"
                       [] call.type = 6 -> "more"
                       [] call.type = 7 -> "nad"
                       [] OTHER -> ""
        IN  IF named = ""
            THEN /\ result.ret = -1
                 /\ t1 = call.before
            ELSE /\ result.ret = 0
                 /\ \A f \in DOMAIN t1 :
                        f # named => t1[f] = call.before[f]

\* the type IFD_PROTOCOL_T1_BLOCKSIZE was refused on a state whose ifsc had
\* been set to 254, and left it so
C20_Witness ==
    /\ pc = "done"
    /\ call.cmd = "t1_set_param"
    /\ call.type = 0
    /\ call.value = 0
    /\ call.before.ifsc = 254
    /\ t1.ifsc = 254
    /\ result.ret = -1

\* C21: the state field of the T=1 state is SENDING after t1_init, and after
\* any sequence of t1_set_param calls it is one of SENDING, RECEIVING,
\* RESYNCH and DEAD, and is DEAD only after a protocol failure that cannot
\* be recovered (no step of t1_init or t1_set_param is one).
C21_StateInLifecycle ==
    /\ t1.state \in {0, 1, 2, 3}
    /\ t1.state # 3

C23_FirstFrameVoltage ==
    (call.cmd = "CmdPowerOn" /\ Writes # {}) =>
        LET v == io[1].frame[8]
            Bit(x) == IF x = 3 THEN 4 ELSE x
            Succ(x) == (x % 3) + 1
            Supported(x) == HasBit(desc.bVoltageSupport, Bit(x))
            req == call.requested
        IN  IF AutoVoltage(desc.dwFeatures) THEN v = 0
            ELSE (\E x \in Voltages : Supported(x)) =>
                    /\ v # 0
                    /\ v = IF Supported(req) THEN req
                           ELSE IF Supported(Succ(req)) THEN Succ(req)
                           ELSE Succ(Succ(req))

\* 3V asked of a reader that supports 5V only: the frame carries 5V
C23_Witness ==
    /\ call.cmd = "CmdPowerOn"
    /\ ~AutoVoltage(desc.dwFeatures)
    /\ desc.bVoltageSupport = 1
    /\ call.requested = 2
    /\ Writes # {}
    /\ io[1].frame[8] = 1

\* C24: without automatic voltage selection, each frame of a CmdPowerOn call
\* after the first carries the voltage before the one of the frame it
\* follows in the cycle 5V, 1.8V, 3V, 5V; when every frame is answered
\* command-failed the three voltages have been tried once each and the
\* call returns communication-error.  With automatic selection one failed
\* attempt returns communication-error and there is no second frame.
C24_RetryCycle ==
    call.cmd = "CmdPowerOn" =>
        LET Volt(i) == io[i].frame[8]
            Dec(v) == IF v = 1 THEN 3 ELSE v - 1
            auto == AutoVoltage(desc.dwFeatures)
            AllFailed ==
                /\ Writes # {}
                /\ \A i \in Writes :
                        /\ io[i].res = "STATUS_SUCCESS"
                        /\ i + 1 \in Reads
                /\ \A i \in Reads :
                        /\ io[i].res = "STATUS_SUCCESS"
                        /\ io[i].resp.n >= CCID_RESPONSE_HEADER_SIZE
                        /\ IsFailed(io[i].resp)
        IN  /\ ~auto => \A i \in Writes :
                            i + 2 \in Writes => Volt(i + 2) = Dec(Volt(i))
            /\ auto => Cardinality(Writes) <= 1
            /\ (pc = "done" /\ AllFailed) =>
                    /\ result.ret = "IFD_COMMUNICATION_ERROR"
                    /\ IF auto
                       THEN \A i \in Writes : Volt(i) = 0
                       ELSE /\ Cardinality(Writes) = 3
                            /\ {Volt(i) : i \in Writes} = Voltages

\* 3V, 5V, 1.8V tried in this order, each answered command-failed
C24_Witness ==
    /\ call.cmd = "CmdPowerOn"
    /\ pc = "done"
    /\ ~AutoVoltage(desc.dwFeatures)
    /\ Len(io) = 6
    /\ <<io[1].frame[8], io[3].frame[8], io[5].frame[8]>> = <<2, 1, 3>>
    /\ \A i \in Reads : io[i].res = "STATUS_SUCCESS" /\ IsFailed(io[i].resp)
    /\ result.ret = "IFD_COMMUNICATION_ERROR"

\* C25: a reader with bVoltageSupport = 0 and no automatic voltage selection
\* gets one PowerOn frame per call, at the voltage the caller asked for,
\* and no other frame after a command-failed response.
C25_SingleAttemptAtRequested ==
    (/\ call.cmd = "CmdPowerOn"
     /\ ~AutoVoltage(desc.dwFeatures)
     /\ desc.bVoltageSupport = 0) =>
        /\ Cardinality(Writes) <= 1
        /\ \A i \in Writes : io[i].frame[8] = call.requested

\* C25 as the code has it: with bVoltageSupport = 0 and no automatic
\* voltage selection the first frame carries 5V whatever the caller asked
\* for, and a frame answered command-failed is followed by one at the
\* voltage before it in the cycle 5V, 1.8V, 3V until the three have been
\* tried; the call then returns communication-error.
C25_ThreeAttemptsFrom5V ==
    (/\ call.cmd = "CmdPowerOn"
     /\ ~AutoVoltage(desc.dwFeatures)
     /\ desc.bVoltageSupport = 0) =>
        /\ \A i \in Writes :
                io[i].frame[8] = IF i = 1 THEN 1 ELSE IF i = 3 THEN 3 ELSE 2
        /\ \A i \in Reads :
                (/\ io[i].res = "STATUS_SUCCESS"
                 /\ io[i].resp.n >= CCID_RESPONSE_HEADER_SIZE
                 /\ IsFailed(io[i].resp)) =>
                    IF i < 6
                    THEN pc = "poweron_again" \/ i + 1 \in Writes
                    ELSE pc = "done"
                         /\ result.ret = "IFD_COMMUNICATION_ERROR"

\* 3V asked for: frames at 5V, 1.8V and 3V, each answered command-failed
C25_Witness ==
    /\ call.cmd = "CmdPowerOn"
    /\ ~AutoVoltage(desc.dwFeatures)
    /\ desc.bVoltageSupport = 0
    /\ call.requested = 2
    /\ pc = "done"
    /\ Len(io) = 6
    /\ <<io[1].frame[8], io[3].frame[8], io[5].frame[8]>> = <<1, 3, 2>>
    /\ \A i \in Reads : io[i].res = "STATUS_SUCCESS" /\ IsFailed(io[i].resp)

\* C26: in the loop of CCID_Receive the read that follows a time-extension
\* frame has the timeout of the read that returned the frame multiplied by
\* the multiplier byte of the frame, 0 counting as 1; the timeout never
\* shrinks and never becomes zero.
C26_TimeoutCumulative ==
    \A i \in Reads :
        (/\ io[i].bSeq = -1
         /\ i + 1 \in Reads
         /\ io[i].res = "STATUS_SUCCESS"
         /\ IsTimeExt(io[i].resp)) =>
            /\ io[i + 1].timeout =
                    MulU32(io[i].timeout, max(io[i].resp.bError, 1))
            /\ io[i + 1].timeout >= io[i].timeout
            /\ io[i + 1].timeout # 0

\* C26 as the code has it: the read that follows a time-extension frame has
\* the timeout CCID_Receive was entered with (that of its first read)
\* multiplied by the multiplier byte of the frame, 0 counting as 1; it is
\* never below the timeout at entry and never zero.
C26_TimeoutFromEntry ==
    \A i \in Reads :
        (/\ io[i].bSeq = -1
         /\ i + 1 \in Reads
         /\ io[i].res = "STATUS_SUCCESS"
         /\ IsTimeExt(io[i].resp)) =>
            LET first == CHOOSE j \in Reads :
                            /\ io[j].bSeq = -1
                            /\ \A k \in Reads : io[k].bSeq = -1 => j <= k
            IN  /\ io[i + 1].timeout =
                        MulU32(io[first].timeout, max(io[i].resp.bError, 1))
                /\ io[i + 1].timeout >= io[first].timeout
                /\ io[i + 1].timeout # 0

\* an extension by 3 and then one by 2: the third read has a shorter timeout
\* than the second
C26_Witness ==
    /\ call.cmd = "CCID_Receive"
    /\ Len(io) = 3
    /\ Reads = {1, 2, 3}
    /\ io[1].resp.bError = 3
    /\ io[2].resp.bError = 2
    /\ IsTimeExt(io[1].resp) /\ IsTimeExt(io[2].resp)
    /\ io[2].timeout = 3 * io[1].timeout
    /\ io[3].timeout = 2 * io[1].timeout

\* C27: the time-extension loop of CCID_Receive, and that of CmdEscapeCheck
\* after its write, has no cap: a frame with the time-extension flag and
\* without the command-failed flag is followed by another read; a transport
\* failure, a frame shorter than 10 bytes or a frame without the
\* time-extension flag ends the loop at once; so n such frames followed by
\* a frame without the flag make n + 1 reads, and then the call returns.
C27_LoopEndsOnlyOnOtherFrame ==
    LET Loop == {i \in Reads :
                    io[i].bSeq = -1 \/ call.cmd = "CmdEscapeCheck"}
        Frame(i) == /\ io[i].res = "STATUS_SUCCESS"
                    /\ io[i].resp.n >= CCID_RESPONSE_HEADER_SIZE
        Ext(i) == HasBit(io[i].resp.bStatus, CCID_TIME_EXTENSION)
        Failed(i) == HasBit(io[i].resp.bStatus, CCID_COMMAND_FAILED)
        Reading == pc \in {"receive_time_request", "escape_time_request"}
        \* the reads since the last frame written
        Last == {i \in Loop : \A w \in Writes : w < i}
    IN  /\ \A i \in Loop :
            /\ (Frame(i) /\ Ext(i) /\ ~Failed(i)) =>
                    \/ i + 1 \in Reads
                    \/ i = Len(io) /\ Reading
            /\ (~Frame(i) \/ ~Ext(i)) =>
                    /\ i + 1 \notin Reads
                    /\ i = Len(io) => ~Reading
        /\ (pc = "done" /\ Last # {}
                /\ \A i \in Last : Frame(i) => ~(Ext(i) /\ Failed(i))) =>
                Cardinality(Last) =
                    Cardinality({i \in Last : Frame(i) /\ Ext(i)}) + 1

\* two time extensions and then a frame with data: three reads
C27_Witness ==
    /\ call.cmd = "CCID_Receive"
    /\ pc = "done"
    /\ Reads = {1, 2, 3}
    /\ IsTimeExt(io[1].resp) /\ IsTimeExt(io[2].resp)
    /\ io[3].res = "STATUS_SUCCESS"
    /\ io[3].resp.bStatus = 0
    /\ result.ret = "IFD_SUCCESS"

\* C28: in CCID_Receive and in CmdEscapeCheck a response with the
\* time-extension flag is handled as a time extension, another read being
\* made, whether the command-failed flag is set or not.
C28_TimeExtWhateverFailed ==
    \A i \in Reads :
        (/\ io[i].bSeq = -1 \/ call.cmd = "CmdEscapeCheck"
         /\ io[i].res = "STATUS_SUCCESS"
         /\ io[i].resp.n >= CCID_RESPONSE_HEADER_SIZE
         /\ HasBit(io[i].resp.bStatus, CCID_TIME_EXTENSION)) =>
            \/ i + 1 \in Reads
            \/ /\ i = Len(io)
               /\ pc \in {"receive_time_request", "escape_time_request"}

\* C28 as the code has it: CmdEscapeCheck tests the time-extension flag
\* first and reads again whether the command-failed flag is set or not;
\* CCID_Receive tests the command-failed flag first, so a response with
\* both flags ends its loop as a failed command and only a response with
\* the command-failed flag clear is a time extension.
C28_TimeExtAfterFailedInReceive ==
    \A i \in Reads :
        (/\ io[i].bSeq = -1 \/ call.cmd = "CmdEscapeCheck"
         /\ io[i].res = "STATUS_SUCCESS"
         /\ io[i].resp.n >= CCID_RESPONSE_HEADER_SIZE
         /\ HasBit(io[i].resp.bStatus, CCID_TIME_EXTENSION)) =>
            IF /\ io[i].bSeq = -1
               /\ HasBit(io[i].resp.bStatus, CCID_COMMAND_FAILED)
            THEN /\ i = Len(io)
                 /\ pc = "done"
                 /\ result.ret = ReceiveFailed(io[i].resp, call.rx).ret
            ELSE \/ i + 1 \in Reads
                 \/ /\ i = Len(io)
                    /\ pc \in {"receive_time_request",
                                "escape_time_request"}

\* CCID_Receive reads a response with both flags and returns
C28_Witness ==
    /\ call.cmd = "CCID_Receive"
    /\ pc = "done"
    /\ Reads = {1}
    /\ io[1].res = "STATUS_SUCCESS"
    /\ io[1].resp.bStatus = CCID_COMMAND_FAILED + CCID_TIME_EXTENSION
    /\ result.ret = "IFD_COMMUNICATION_ERROR"

\* C29: in CmdEscapeCheck each read that returns the NAK status makes the
\* exchange start again: the same payload is written in a new frame whose
\* sequence number is the previous one + 1 modulo 256, and the next read
\* expects that number; the frames written in a call are one more than the
\* NAK statuses read, and the call returns only after a read that returns
\* a status other than NAK.
C29_NakRestartsAlways ==
    call.cmd = "CmdEscapeCheck" =>
        LET Prev(i) == CHOOSE w \in Writes :
                          w < i /\ \A x \in Writes : x < i => x <= w
        IN  /\ \A i \in NakReads :
                /\ i = Len(io) => pc = "escape_again"
                /\ i < Len(io) =>
                    /\ i + 1 \in Writes
                    /\ io[i + 1].frame =
                          [io[Prev(i)].frame EXCEPT
                              ![7] = (io[Prev(i)].frame[7] + 1) % BYTE_MOD]
                    /\ i + 2 \in Reads =>
                          io[i + 2].bSeq = io[i + 1].frame[7]
            /\ pc = "done" =>
                /\ Cardinality(Writes) = Cardinality(NakReads) + 1
                /\ Len(io) \in Reads \ NakReads

\* C29 as the code has it: after a NAK read the buffers are allocated again
\* and, unless an allocation fails, the same payload is written in a new
\* frame with the next sequence number, which the next read expects.  The
\* call returns after a read with a status other than NAK, after a write
\* that fails, or, with communication-error, when an allocation fails; the
\* frames written are one more than the NAK statuses read unless an
\* allocation failed, and as many then.
C29_NakRestartsUnlessFailure ==
    call.cmd = "CmdEscapeCheck" =>
        LET Prev(i) == CHOOSE w \in Writes :
                          w < i /\ \A x \in Writes : x < i => x <= w
            AllocFailed == io = <<>> \/ Len(io) \in NakReads
        IN  /\ \A i \in NakReads :
                /\ i = Len(io) => pc \in {"escape_again", "done"}
                /\ i < Len(io) =>
                    /\ i + 1 \in Writes
                    /\ io[i + 1].frame =
                          [io[Prev(i)].frame EXCEPT
                              ![7] = (io[Prev(i)].frame[7] + 1) % BYTE_MOD]
                    /\ i + 2 \in Reads =>
                          io[i + 2].bSeq = io[i + 1].frame[7]
            /\ pc = "done" =>
                IF AllocFailed
                THEN /\ result.ret = "IFD_COMMUNICATION_ERROR"
                     /\ Cardinality(Writes) = Cardinality(NakReads)
                ELSE /\ Cardinality(Writes) = Cardinality(NakReads) + 1
                     /\ \/ Len(io) \in Reads \ NakReads
                        \/ /\ Len(io) \in Writes
                           /\ io[Len(io)].res # "STATUS_SUCCESS"
                           /\ result.ret # "IFD_SUCCESS"

\* a NAK read, a second frame with the next sequence number, and a read
\* that succeeds
C29_Witness ==
    /\ call.cmd = "CmdEscapeCheck"
    /\ pc = "done"
    /\ Len(io) = 4
    /\ NakReads = {2}
    /\ Writes = {1, 3}
    /\ io[3].frame[7] = (io[1].frame[7] + 1) % BYTE_MOD
    /\ SubSeq(io[3].frame, 11, Len(io[3].frame)) = call.TxBuffer
    /\ io[4].bSeq = io[3].frame[7]
    /\ io[4].res = "STATUS_SUCCESS"
    /\ result.ret = "IFD_SUCCESS"

\* C30: CCID_Receive with a null output buffer returns communication-error
\* and copies nothing whenever the response, its command-failed and
\* time-extension flags clear, declares a payload length that is not 0,
\* whatever the capacity given in *rx_length.
C30_NullBufferIsCommunicationError ==
    (/\ call.cmd = "CCID_Receive"
     /\ call.rx.null
     /\ pc = "done"
     /\ io[Len(io)].res = "STATUS_SUCCESS"
     /\ io[Len(io)].resp.n >= CCID_RESPONSE_HEADER_SIZE
     /\ ~HasBit(io[Len(io)].resp.bStatus, CCID_COMMAND_FAILED)
     /\ ~HasBit(io[Len(io)].resp.bStatus, CCID_TIME_EXTENSION)
     /\ io[Len(io)].resp.dwLength # 0) =>
        /\ result.ret = "IFD_COMMUNICATION_ERROR"
        /\ result.data = <<>>

\* a null buffer of capacity 3 and a response that declares 4 bytes
C30_Witness ==
    /\ call.cmd = "CCID_Receive"
    /\ call.rx = RxBuffer(3, TRUE)
    /\ pc = "done"
    /\ io[Len(io)].res = "STATUS_SUCCESS"
    /\ io[Len(io)].resp.bStatus = 0
    /\ io[Len(io)].resp.dwLength = 4
    /\ result.ret = "IFD_COMMUNICATION_ERROR"
    /\ result.data = <<>>

C32_FrameDropsTwoFields ==
    (call.cmd \in {"SecurePINVerify", "SecurePINModify"} /\ Writes # {}) =>
        LET Tx == call.TxBuffer
            frame == io[1].frame
            n == Len(frame) - CCID_RESPONSE_HEADER_SIZE
            verify == call.cmd = "SecurePINVerify"
            at == IF verify THEN 15 ELSE 20
        IN  /\ SubSeq(frame, 1, 10) =
                    <<105, n % 256, (n \div 256) % 256, 0, 0,
                      desc.bCurrentSlotIndex, (desc.pbSeq + 255) % 256,
                      0, 0, 0>>
            /\ frame[11] = IF verify THEN 0 ELSE 1
            /\ SubSeq(frame, 12, Len(frame)) =
                    <<Tx[1]>> \o SubSeq(Tx, 3, at)
                              \o SubSeq(Tx, at + 5, Len(Tx))
            /\ verify => n = Len(Tx) - 4

\* C32 as the code has it: the same, the bytes being those of the block
\* after the byte order and the entry validation condition have been set
\* right, and the frame of a Modify leaving out also the second
\* message-index byte (offset 15) when the message count is 0 and the third
\* (offset 16) when it is below 3; the length in the header is the number
\* of bytes after the header: the length of the block minus 4 for Verify,
\* and for Modify minus 4 and minus the message-index bytes left out.
C32_FrameDropsFieldsAndIndexes ==
    (call.cmd \in {"SecurePINVerify", "SecurePINModify"} /\ Writes # {}) =>
        LET Tx == call.TxBuffer
            frame == io[1].frame
            n == Len(frame) - CCID_RESPONSE_HEADER_SIZE
            verify == call.cmd = "SecurePINVerify"
            count == Tx[12]
            out == IF verify THEN 0
                   ELSE (IF count = 0 THEN 1 ELSE 0)
                        + (IF count < 3 THEN 1 ELSE 0)
        IN  /\ SubSeq(frame, 1, 10) =
                    <<105, n % 256, (n \div 256) % 256, 0, 0,
                      desc.bCurrentSlotIndex, (desc.pbSeq + 255) % 256,
                      0, 0, 0>>
            /\ frame[11] = IF verify THEN 0 ELSE 1
            /\ SubSeq(frame, 12, Len(frame)) =
                    IF verify
                    THEN <<Tx[1]>> \o SubSeq(Tx, 3, 15)
                                  \o SubSeq(Tx, 20, Len(Tx))
                    ELSE <<Tx[1]>> \o SubSeq(Tx, 3, 15)
                             \o (IF count # 0 THEN <<Tx[16]>> ELSE <<>>)
                             \o (IF count >= 3 THEN <<Tx[17]>> ELSE <<>>)
                             \o SubSeq(Tx, 18, 20)
                             \o SubSeq(Tx, 25, Len(Tx))
            /\ n = Len(Tx) - 4 - out
            /\ Tx = FixEntryValidation(call.ordered,
                        IF verify THEN VerifyLayout ELSE ModifyLayout)

\* a Modify with a message count of 0: 22 bytes after the header, the byte
\* of offset 14 followed by that of offset 17
C32_Witness ==
    /\ call.cmd = "SecurePINModify"
    /\ call.TxBuffer[12] = 0
    /\ Writes = {1}
    /\ Len(io[1].frame) = 32
    /\ io[1].frame[2] = 22
    /\ io[1].frame[11] = 1
    /\ <<io[1].frame[25], io[1].frame[26]>> = <<14, 17>>

\* C33: without automatic voltage selection the tests at the start of
\* CmdPowerOn come to an end, and the first frame is built, for every
\* bVoltageSupport, also one that is not 0 and has none of the bits of 5V,
\* 3V and 1.8V, and for every voltage asked for.
C33_PreselectionTerminates ==
    (pc = "poweron_check_again") ~> (pc = "poweron_again")

\* bVoltageSupport = 8: 3V was asked for and the tests start again with 5V
C33_Witness ==
    /\ call.cmd = "CmdPowerOn"
    /\ desc.bVoltageSupport = 8
    /\ pc = "poweron_check_again"
    /\ call.requested = 2
    /\ call.voltage = 1
    /\ io = <<>>

\* C34: a SecurePINVerify or SecurePINModify call rejected by the local
\* validation (not-supported, nothing written or read) leaves the reader
\* descriptor as it was: the sequence counter and the read timeout are
\* unchanged.
C34_RejectedLeavesDescriptor ==
    [][(/\ pc = "idle"
        /\ pc' = "done"
        /\ call'.cmd \in {"SecurePINVerify", "SecurePINModify"}
        /\ result'.ret = "IFD_NOT_SUPPORTED"
        /\ io' = <<>>) => desc' = desc]_vars

\* C34 as the code has it: such a call leaves the read timeout and the
\* rest of the descriptor as they were, but the sequence counter is one
\* more, modulo 256, than at entry: the number of the frame that was built
\* and not written is used up.
C34_RejectedAdvancesCounter ==
    [][(/\ pc = "idle"
        /\ pc' = "done"
        /\ call'.cmd \in {"SecurePINVerify", "SecurePINModify"}
        /\ result'.ret = "IFD_NOT_SUPPORTED"
        /\ io' = <<>>) =>
            /\ desc' = [desc EXCEPT !.pbSeq = (desc.pbSeq + 1) % BYTE_MOD]
            /\ desc'.pbSeq # desc.pbSeq
            /\ desc'.readTimeout = call'.entryTimeout]_vars

\* a SecurePINModify with a message count of 200 has been rejected
C34_Witness ==
    /\ call.cmd = "SecurePINModify"
    /\ call.TxBuffer0[12] = 200
    /\ pc = "done"
    /\ result.ret = "IFD_NOT_SUPPORTED"
    /\ io = <<>>
    /\ desc.pbSeq = 1
    /\ desc.readTimeout = call.entryTimeout

\* C35: CmdPowerOn and CmdEscapeCheck give the caller, and report in
\* *nlength or *RxLength, no more payload bytes than were received for the
\* response (the bytes read less the 10 of the header), also when the
\* header of the response declares more.
C35_DeliveredWithinReceived ==
    (/\ call.cmd \in {"CmdPowerOn", "CmdEscapeCheck"}
     /\ pc = "done"
     /\ Len(io) \in Reads
     /\ io[Len(io)].res = "STATUS_SUCCESS"
     /\ io[Len(io)].resp.n >= CCID_RESPONSE_HEADER_SIZE
     /\ result.ret \in {"IFD_SUCCESS", "IFD_ERROR_INSUFFICIENT_BUFFER"}) =>
        /\ Len(result.data) <= io[Len(io)].resp.n - CCID_RESPONSE_HEADER_SIZE
        /\ result.len <= io[Len(io)].resp.n - CCID_RESPONSE_HEADER_SIZE

\* CmdPowerOn with room for 33 bytes: 10 bytes read, 4 declared, 4 given
C35_Witness ==
    /\ call.cmd = "CmdPowerOn"
    /\ call.nlength = 33
    /\ pc = "done"
    /\ Len(io) \in Reads
    /\ io[Len(io)].resp.n = CCID_RESPONSE_HEADER_SIZE
    /\ io[Len(io)].resp.dwLength = 4
    /\ result.ret = "IFD_SUCCESS"
    /\ result.len = 4
    /\ Len(result.data) = 4

====
